---- MODULE Spec2Model ----
(***************************************************************************)
(* ALICE-Font: the SDF atlas cache (src/src/atlas.rs) with the glyph       *)
(* generator it calls (src/src/glyph/mod.rs), as a state machine.          *)
(*                                                                         *)
(* Indices are 0-based as in the source.  Option<T> is a sequence: None is *)
(* <<>> and Some(e) is <<e>>.  An f32 pixel is a record that names the     *)
(* sample it holds (which generator, which skeleton, which tile index), or *)
(* the constant 0.0; no atlas property depends on the float value.         *)
(*                                                                         *)
(* The strokes, the pen (src/src/stroke.rs) and the rasterizer are         *)
(* computed on fixed-point numbers: an f32 is an integer count of 1/One.   *)
(*                                                                         *)
(* The text shaper (src/src/shaper.rs) works on em lengths of the same     *)
(* fixed-point grid, and the license validator (src/src/license.rs) on     *)
(* exact 64-bit hashes.                                                    *)
(***************************************************************************)
EXTENDS Integers, Sequences, FiniteSets, TLC

(***************************************************************************)
(* Bounds of the model.                                                    *)
(***************************************************************************)
\* grid dimensions passed to SdfAtlas::new are 0..MaxDim
MaxDim == 2
\* side of one glyph tile in the model (GLYPH_SDF_SIZE is 32 in the source)
SdfSide == 3
\* largest value of the LRU clock in the model (u32::MAX in the source)
ClockMax == 6
\* number of codepoints of CharList the callers use
NumChars == 5
\* number of distinct parameter vectors the callers use
NumParams == 2
\* number of calls made on one atlas
MaxCalls == 2
\* longest slice passed to preload
MaxPreload == 9
\* the largest texture coordinate passed to sample
MaxCoord == 2
\* number of pens of PenList, strokes of StrokeList, angles of AngleList and
\* tangents of TangentList the callers use
NumPens == 3
NumStrokes == 3
NumAngles == 4
NumTangents == 3
\* character pairs and adjustments passed to add_kern_pair and kern
NumPairs == 3
NumAdjs == 2
\* texts, widths and line heights passed to the shaper
NumTexts == 5
NumWidths == 3
NumHeights == 2
\* encoded parameter vectors that licenses are bound to and validated with
NumEncoded == 2

(***************************************************************************)
(* Program constants.                                                      *)
(***************************************************************************)
MAX_ATLAS_DIM == 16
GLYPH_SDF_SIZE == SdfSide
U32_MAX == ClockMax

\* 'A', 'B', e-acute (not ASCII), BEL (ASCII, no glyph), '?', 'H', 'I', 'T'
CharList == <<65, 66, 233, 7, 63, 72, 73, 84>>
Chars == {CharList[i] : i \in 1..NumChars}
\* the text whose beginnings are passed to preload: four codepoints, then
\* some of them again
PreloadText == <<65, 66, 233, 7, 65, 233, 7, 7, 7, 66, 63>>
Params == 1..NumParams

None == <<>>
Some(e) == <<e>>

(***************************************************************************)
(* Glyph generation (glyph/mod.rs).                                        *)
(***************************************************************************)
\* GlyphGenerator::new: the pen and the metrics are derived from params
GeneratorNew(p) == [from |-> p]

\* build_skeleton: which skeleton builder the match selects; -1 is
\* build_placeholder, a code in 0x21..0x7E is that character's own builder
PLACEHOLDER == -1
build_skeleton(ch) == IF ch >= 33 /\ ch <= 126 THEN ch ELSE PLACEHOLDER

\* the f32 0.0
F32Zero == [gen |-> 0, skel |-> 0, src |-> 0 - 1]
\* the f32 that rasterize_sdf wrote at index src of the tile of a skeleton
F32Sample(g, skel, src) == [gen |-> g.from, skel |-> skel, src |-> src]

\* GlyphGenerator::generate: skeleton, then rasterize_sdf
generate(g, ascii) ==
    LET skel == build_skeleton(ascii)
    IN  [data    |-> [src \in 0..(GLYPH_SDF_SIZE * GLYPH_SDF_SIZE - 1) |->
                         F32Sample(g, skel, src)],
         advance |-> [gen |-> g.from, skel |-> skel],
         lsb     |-> 0]

(***************************************************************************)
(* Strokes and the pen (stroke.rs).  An f32 of the geometry is a fixed     *)
(* point integer: One stands for 1.0 and every product or quotient of two  *)
(* numbers is rounded to that grid (floor), as an f32 operation rounds to  *)
(* its own.  Angles are radians on the same grid.                          *)
(***************************************************************************)
One == 100
PI == 314
FRAC_PI_2 == 157
\* f32::MAX: larger than every coordinate and distance of the model
F32_MAX == 100000

Mul(a, b) == (a * b) \div One
Div(a, b) == (a * One) \div b
Abs(a) == IF a < 0 THEN 0 - a ELSE a
\* the % of two f32: the remainder has the sign of the dividend
Rem(a, m) == IF a >= 0 THEN a % m ELSE 0 - ((0 - a) % m)

Point2(x, y) == [x |-> x, y |-> y]
ZERO == Point2(0, 0)

\* Point2::lerp with t = n / d
lerp(a, other, n, d) ==
    Point2(a.x + ((other.x - a.x) * n) \div d, a.y + ((other.y - a.y) * n) \div d)

\* Stroke::new and Stroke::line
StrokeNew(p0, p1, p2, p3) == [p0 |-> p0, p1 |-> p1, p2 |-> p2, p3 |-> p3]
line(start, end) ==
    StrokeNew(start, lerp(start, end, 1, 3), lerp(start, end, 2, 3), end)

\* Stroke::position at t = i / n
position(stroke, i, n) ==
    LET t  == i
        mt == n - i
        B(c0, c1, c2, c3) ==
            (mt * mt * mt * c0 + 3 * mt * mt * t * c1
                + 3 * mt * t * t * c2 + t * t * t * c3) \div (n * n * n)
    IN  Point2(B(stroke.p0.x, stroke.p1.x, stroke.p2.x, stroke.p3.x),
               B(stroke.p0.y, stroke.p1.y, stroke.p2.y, stroke.p3.y))

\* Stroke::tangent at t = i / n
tangent(stroke, i, n) ==
    LET t  == i
        mt == n - i
        D(c0, c1, c2, c3) ==
            (3 * mt * mt * (c1 - c0) + 6 * mt * t * (c2 - c1)
                + 3 * t * t * (c3 - c2)) \div (n * n)
    IN  Point2(D(stroke.p0.x, stroke.p1.x, stroke.p2.x, stroke.p3.x),
               D(stroke.p0.y, stroke.p1.y, stroke.p2.y, stroke.p3.y))

\* sin_approx_stroke: the rational approximation on [0, pi], by symmetry
\* elsewhere
sin_approx_stroke(x0) ==
    LET x1   == Rem(x0, 2 * PI)
        x2   == IF x1 < 0 THEN x1 + 2 * PI ELSE x1
        sign == IF x2 > PI THEN 0 - 1 ELSE 1
        x    == IF x2 > PI THEN x2 - PI ELSE x2
        num  == 16 * x * (PI - x)
        den  == 5 * PI * PI - 4 * x * (PI - x)
    IN  (sign * num * One) \div den

\* atan2_approx: the polynomial in a = min / max, folded into the quadrant
atan2_approx(y, x) ==
    IF x = 0 /\ y = 0 THEN 0
    ELSE IF x = 0 THEN (IF y > 0 THEN PI \div 2 ELSE 0 - (PI \div 2))
    ELSE
      LET ax  == Abs(x)
          ay  == Abs(y)
          min == IF ax < ay THEN ax ELSE ay
          max == IF ax > ay THEN ax ELSE ay
          a   == Div(min, max)
          s   == Mul(a, a)
          r0  == Mul(Mul(Mul(Mul(0 - 5, s) + 16, s) - 33, s), a) + a
          r1  == IF ay > ax THEN FRAC_PI_2 - r0 ELSE r0
          r2  == IF x < 0 THEN PI - r1 ELSE r1
      IN  IF y < 0 THEN 0 - r2 ELSE r2

\* a PenModel: from_params sets pen_angle to 0.5
Pen(base_width, contrast) ==
    [base_width |-> base_width, contrast |-> contrast, pen_angle |-> One \div 2]

\* half_width_at_angle without the contrast factor
half_width_at_angle_full_contrast(pen, direction_angle) ==
    LET relative == direction_angle - pen.pen_angle
        sin_val  == sin_approx_stroke(relative)
    IN  Mul(pen.base_width, One - Mul(sin_val, sin_val))

\* PenModel::half_width_at_angle
half_width_at_angle(pen, direction_angle) ==
    LET relative == direction_angle - pen.pen_angle
        sin_val  == sin_approx_stroke(relative)
    IN  Mul(pen.base_width, One - Mul(Mul(pen.contrast, sin_val), sin_val))

\* PenModel::half_width
half_width(pen, tan) ==
    half_width_at_angle(pen, atan2_approx(tan.y, tan.x))

(***************************************************************************)
(* Skeletons and the rasterizer (glyph/mod.rs).                            *)
(***************************************************************************)
MAX_GLYPH_STROKES == 16
STEPS == 16

\* GlyphSkeleton::empty
GlyphSkeleton_empty ==
    [strokes      |-> [i \in 0..(MAX_GLYPH_STROKES - 1) |-> line(ZERO, ZERO)],
     stroke_count |-> 0,
     advance      |-> One \div 2]

\* add_stroke with <= for <: one stroke too many is counted
add_stroke_one_more(skel, stroke) ==
    IF skel.stroke_count <= MAX_GLYPH_STROKES
    THEN [skel EXCEPT !.strokes =
                          [i \in DOMAIN skel.strokes |->
                              IF i = skel.stroke_count THEN stroke
                              ELSE skel.strokes[i]],
                      !.stroke_count = skel.stroke_count + 1]
    ELSE skel

\* GlyphSkeleton::add_stroke
add_stroke(skel, stroke) ==
    IF skel.stroke_count < MAX_GLYPH_STROKES
    THEN [skel EXCEPT !.strokes[skel.stroke_count] = stroke,
                      !.stroke_count = skel.stroke_count + 1]
    ELSE skel

\* GlyphSdf::empty
GlyphSdf_empty ==
    [data     |-> [i \in 0..(GLYPH_SDF_SIZE * GLYPH_SDF_SIZE - 1) |-> One],
     advance  |-> One \div 2,
     lsb      |-> 0,
     bbox_min |-> ZERO,
     bbox_max |-> Point2(One, One)]

\* fast_sqrt_glyph: 0 for x <= 0, else the square root (here the integer one,
\* by Newton's iteration)
RECURSIVE Newton(_, _)
Newton(x, r) ==
    LET r2 == (r + x \div r) \div 2
    IN  IF r2 >= r THEN r ELSE Newton(x, r2)

fast_sqrt_glyph(x) == IF x <= 0 THEN 0 ELSE Newton(x, x)

SetMin(S) == CHOOSE x \in S : \A y \in S : x <= y
SetMax(S) == CHOOSE x \in S : \A y \in S : x >= y

\* compute_bbox: the extremes of 9 points of every stroke, from f32::MAX and
\* f32::MIN
compute_bbox(skel) ==
    LET Pts == {position(skel.strokes[si], t_step, 8) :
                   si \in 0..(skel.stroke_count - 1), t_step \in 0..8}
    IN  [min |-> Point2(SetMin({F32_MAX} \cup {p.x : p \in Pts}),
                        SetMin({F32_MAX} \cup {p.y : p \in Pts})),
         max |-> Point2(SetMax({0 - F32_MAX} \cup {p.x : p \in Pts}),
                        SetMax({0 - F32_MAX} \cup {p.y : p \in Pts}))]

\* the precomputed samples: sx, sy and shw of stroke si at i / STEPS
StrokeSamples(pen, skel) ==
    [si \in 0..(skel.stroke_count - 1) |->
        [i \in 0..STEPS |->
            LET pt == position(skel.strokes[si], i, STEPS)
            IN  [x  |-> pt.x,
                 y  |-> pt.y,
                 hw |-> half_width(pen, tangent(skel.strokes[si], i, STEPS))]]]

\* dist of the pixel at (px_world, py_world) to one sample
SampleDist(px_world, py_world, smp) ==
    LET dx == px_world - smp.x
        dy == py_world - smp.y
    IN  fast_sqrt_glyph(dx * dx + dy * dy) - smp.hw

\* the loop over the samples of one stroke with the break taken at the
\* first sample that lowers the minimum, whatever its sign
RECURSIVE SampleLoop_breaks_at_first(_, _, _, _, _)
SampleLoop_breaks_at_first(smps, px_world, py_world, i, min_dist) ==
    IF i > STEPS THEN min_dist
    ELSE LET dist == SampleDist(px_world, py_world, smps[i])
         IN  IF dist < min_dist THEN dist
             ELSE SampleLoop_breaks_at_first(smps, px_world, py_world, i + 1,
                                             min_dist)

\* the loop over the samples of one stroke: break once the running minimum
\* is negative
RECURSIVE SampleLoop(_, _, _, _, _)
SampleLoop(smps, px_world, py_world, i, min_dist) ==
    IF i > STEPS THEN min_dist
    ELSE LET dist == SampleDist(px_world, py_world, smps[i])
         IN  IF dist < min_dist
             THEN IF dist < 0 THEN dist
                  ELSE SampleLoop(smps, px_world, py_world, i + 1, dist)
             ELSE SampleLoop(smps, px_world, py_world, i + 1, min_dist)

\* 'stroke_loop: break once the minimum is below -(base_width * 2.0)
RECURSIVE StrokeLoop(_, _, _, _, _, _)
StrokeLoop(pen, samples, px_world, py_world, si, min_dist) ==
    IF si \notin DOMAIN samples THEN min_dist
    ELSE LET m == SampleLoop(samples[si], px_world, py_world, 0, min_dist)
         IN  IF m < 0 - (pen.base_width * 2) THEN m
             ELSE StrokeLoop(pen, samples, px_world, py_world, si + 1, m)

\* the bounding box with its padding, and the extent tested against 1e-6
\* (below the grid: an extent under 1e-6 is one that is <= 0)
PaddedBox(pen, skel) ==
    LET bb      == compute_bbox(skel)
        padding == pen.base_width * 3
    IN  [min |-> Point2(bb.min.x - padding, bb.min.y - padding),
         max |-> Point2(bb.max.x + padding, bb.max.y + padding)]

Degenerate(box) == box.max.x - box.min.x <= 0 \/ box.max.y - box.min.y <= 0

\* the world point of pixel k = py * size + px in the pixel loop
PixelWorld(box, k) ==
    LET size == GLYPH_SDF_SIZE
        w    == box.max.x - box.min.x
        h    == box.max.y - box.min.y
    IN  Point2(box.min.x + ((k % size) * w) \div (size - 1),
               box.min.y + ((k \div size) * h) \div (size - 1))

\* the indices of sdf.data the pixel loop writes
PixelIndices == 0..(GLYPH_SDF_SIZE * GLYPH_SDF_SIZE - 1)

\* rasterize_sdf without the test of the extent
rasterize_sdf_no_guard(pen, skel) ==
    LET box     == PaddedBox(pen, skel)
        samples == StrokeSamples(pen, skel)
        Pixel(p) == StrokeLoop(pen, samples, p.x, p.y, 0, F32_MAX)
    IN  [GlyphSdf_empty EXCEPT !.advance = skel.advance,
                               !.bbox_min = box.min, !.bbox_max = box.max,
                               !.data = [k \in PixelIndices |->
                                       Pixel(PixelWorld(box, k))]]

\* GlyphGenerator::rasterize_sdf
rasterize_sdf(pen, skel) ==
    LET box     == PaddedBox(pen, skel)
        samples == StrokeSamples(pen, skel)
        Pixel(p) == StrokeLoop(pen, samples, p.x, p.y, 0, F32_MAX)
        sdf     == [GlyphSdf_empty EXCEPT !.advance = skel.advance,
                                          !.bbox_min = box.min,
                                          !.bbox_max = box.max]
    IN  IF Degenerate(box) THEN sdf
        ELSE [sdf EXCEPT !.data = [k \in PixelIndices |->
                                       Pixel(PixelWorld(box, k))]]

\* distance_to_stroke: the minimum over all the samples of a stroke
distance_to_stroke(smps, px_world, py_world) ==
    SetMin({F32_MAX} \cup {SampleDist(px_world, py_world, smps[i]) :
                              i \in 0..STEPS})

\* rasterize_sdf as glyph.rs has it: distance_to_stroke for every stroke
rasterize_sdf_all_samples(pen, skel) ==
    LET box     == PaddedBox(pen, skel)
        samples == StrokeSamples(pen, skel)
        Pixel(p) ==
            SetMin({F32_MAX} \cup {distance_to_stroke(samples[si], p.x, p.y) :
                                      si \in DOMAIN samples})
        sdf     == [GlyphSdf_empty EXCEPT !.advance = skel.advance,
                                          !.bbox_min = box.min,
                                          !.bbox_max = box.max]
    IN  IF Degenerate(box) THEN sdf
        ELSE [sdf EXCEPT !.data = [k \in PixelIndices |->
                                       Pixel(PixelWorld(box, k))]]

(***************************************************************************)
(* The atlas (atlas.rs).  An atlas value is the record of the struct's     *)
(* fields.                                                                 *)
(***************************************************************************)
\* char::is_ascii and the cast to u8, atlas.rs:149
is_ascii(ch) == ch < 128
AsciiOf(ch) == IF is_ascii(ch) THEN ch ELSE 63

texture_size(a) == a.dim * GLYPH_SDF_SIZE
capacity(a) == a.dim * a.dim

\* new without the cap on the dimension
new_unclamped(d, p) ==
    [dim       |-> d,
     pixels    |-> [i \in 0..(d * GLYPH_SDF_SIZE * d * GLYPH_SDF_SIZE - 1) |->
                       F32Zero],
     entries   |-> [i \in 0..(d * d - 1) |-> None],
     params    |-> p,
     generator |-> GeneratorNew(p),
     clock     |-> 0,
     occupied  |-> 0]

\* SdfAtlas::new
new(d, p) ==
    LET dm == IF d > MAX_ATLAS_DIM THEN MAX_ATLAS_DIM ELSE d
        tex_size == dm * GLYPH_SDF_SIZE
    IN  [dim       |-> dm,
         pixels    |-> [i \in 0..(tex_size * tex_size - 1) |-> F32Zero],
         entries   |-> [i \in 0..(dm * dm - 1) |-> None],
         params    |-> p,
         generator |-> GeneratorNew(p),
         clock     |-> 0,
         occupied  |-> 0]

\* clear without the reset of the clock
clear_keeps_clock(a) ==
    [a EXCEPT !.entries  = [i \in DOMAIN a.entries |-> None],
              !.pixels   = [i \in DOMAIN a.pixels |-> F32Zero],
              !.occupied = 0]

\* clear without the reset of the counter
clear_keeps_occupied(a) ==
    [a EXCEPT !.entries  = [i \in DOMAIN a.entries |-> None],
              !.pixels   = [i \in DOMAIN a.pixels |-> F32Zero],
              !.clock    = 0]

\* SdfAtlas::clear
clear(a) ==
    [a EXCEPT !.entries  = [i \in DOMAIN a.entries |-> None],
              !.pixels   = [i \in DOMAIN a.pixels |-> F32Zero],
              !.occupied = 0,
              !.clock    = 0]

\* set_params that keeps the cache when the parameters are the same
set_params_lazy(a, p) ==
    IF p = a.params THEN a
    ELSE clear([a EXCEPT !.params = p, !.generator = GeneratorNew(p)])

\* SdfAtlas::set_params
set_params(a, p) ==
    clear([a EXCEPT !.params = p, !.generator = GeneratorNew(p)])

\* the scan stopping after the first slot
SlotsOfFirstOnly(es, ch) ==
    {i \in DOMAIN es : i = 0 /\ es[i] # <<>> /\ es[i][1].codepoint = ch}
\* the scan never matching
SlotsOfNever(es, ch) == {i \in DOMAIN es : FALSE}

\* the slots holding ch, in scan order
SlotsOf(es, ch) == {i \in DOMAIN es : es[i] # None /\ es[i][1].codepoint = ch}
MinOf(S) == CHOOSE x \in S : \A y \in S : x <= y

\* SdfAtlas::peek: the first entry with this codepoint
peek(a, ch) ==
    IF SlotsOf(a.entries, ch) = {} THEN None
    ELSE a.entries[MinOf(SlotsOf(a.entries, ch))]

\* SdfAtlas::contains
contains(a, ch) == peek(a, ch) # None

\* what a call leaves: the atlas, the fault it ended with ("none" when it
\* returned), what it returned, and the path taken (hit, slot, victim)
NoSlot == 0 - 1

Outcome(a, f, r, h, s, v) ==
    [a |-> a, fault |-> f, ret |-> r, hit |-> h, slot |-> s, victim |-> v]

Returns(a, r) == Outcome(a, "none", r, FALSE, NoSlot, None)

\* sample with > for >= in the bounds test
sample_off_by_one(a, tex_x, tex_y) ==
    LET tex_w == texture_size(a)
        idx   == tex_y * tex_w + tex_x
    IN  IF tex_x > tex_w \/ tex_y > tex_w THEN Returns(a, F32Zero)
        ELSE IF idx \notin DOMAIN a.pixels
        THEN Outcome(a, "index", F32Zero, FALSE, NoSlot, None)
        ELSE Returns(a, a.pixels[idx])

\* SdfAtlas::sample; indexing pixels outside the buffer panics
sample(a, tex_x, tex_y) ==
    LET tex_w == texture_size(a)
        idx   == tex_y * tex_w + tex_x
    IN  IF tex_x >= tex_w \/ tex_y >= tex_w THEN Returns(a, F32Zero)
        ELSE IF idx \notin DOMAIN a.pixels
        THEN Outcome(a, "index", F32Zero, FALSE, NoSlot, None)
        ELSE Returns(a, a.pixels[idx])

\* the second loop with <= for <: the last of several equals wins
RECURSIVE LruScanLastFound(_, _, _, _, _)
LruScanLastFound(es, n, i, lru_idx, lru_time) ==
    IF i >= n THEN lru_idx
    ELSE IF es[i] # <<>> /\ es[i][1].last_used <= lru_time
         THEN LruScanLastFound(es, n, i + 1, i, es[i][1].last_used)
         ELSE LruScanLastFound(es, n, i + 1, lru_idx, lru_time)

\* the second loop of find_slot: strict <, starting from u32::MAX at index 0
RECURSIVE LruScan(_, _, _, _, _)
LruScan(es, n, i, lru_idx, lru_time) ==
    IF i >= n THEN lru_idx
    ELSE IF es[i] # None /\ es[i][1].last_used < lru_time
         THEN LruScan(es, n, i + 1, i, es[i][1].last_used)
         ELSE LruScan(es, n, i + 1, lru_idx, lru_time)

\* find_slot with its two loops in the other order
find_slot_lru_first(a) ==
    LET full == {i \in DOMAIN a.entries : a.entries[i] # None}
    IN  IF full # {} THEN LruScan(a.entries, capacity(a), 0, 0, U32_MAX)
        ELSE 0

\* SdfAtlas::find_slot
find_slot(a) ==
    LET empty == {i \in DOMAIN a.entries : a.entries[i] = None}
    IN  IF empty # {} THEN MinOf(empty)
        ELSE LruScan(a.entries, capacity(a), 0, 0, U32_MAX)

\* blit_tile with the column and the row of the tile exchanged
blit_tile_transposed(a, tile_x, tile_y, sdf) ==
    LET tex_w  == texture_size(a)
        base_x == tile_y * GLYPH_SDF_SIZE
        base_y == tile_x * GLYPH_SDF_SIZE
        ColAt(dst, row) == dst - (base_y + row) * tex_w - base_x
        Rows(dst) == {row \in 0..(GLYPH_SDF_SIZE - 1) :
                         ColAt(dst, row) \in 0..(GLYPH_SDF_SIZE - 1)}
    IN  [a EXCEPT !.pixels =
            [dst \in DOMAIN a.pixels |->
                IF Rows(dst) = {} THEN a.pixels[dst]
                ELSE LET row == CHOOSE r \in Rows(dst) :
                                    \A q \in Rows(dst) : q <= r
                     IN  sdf.data[row * GLYPH_SDF_SIZE + ColAt(dst, row)]]]

\* SdfAtlas::blit_tile: pixel dst takes sdf.data[row * SIZE + col] of the last
\* (row, col) of the two loops with (base_y + row) * tex_w + (base_x + col) = dst
blit_tile(a, tile_x, tile_y, sdf) ==
    LET tex_w  == texture_size(a)
        base_x == tile_x * GLYPH_SDF_SIZE
        base_y == tile_y * GLYPH_SDF_SIZE
        ColAt(dst, row) == dst - (base_y + row) * tex_w - base_x
        Rows(dst) == {row \in 0..(GLYPH_SDF_SIZE - 1) :
                         ColAt(dst, row) \in 0..(GLYPH_SDF_SIZE - 1)}
    IN  [a EXCEPT !.pixels =
            [dst \in DOMAIN a.pixels |->
                IF Rows(dst) = {} THEN a.pixels[dst]
                ELSE LET row == CHOOSE r \in Rows(dst) :
                                    \A q \in Rows(dst) : q <= r
                     IN  sdf.data[row * GLYPH_SDF_SIZE + ColAt(dst, row)]]]

(***************************************************************************)
(* Calls that advance the clock.  `self.clock += 1` on a clock that holds  *)
(* u32::MAX panics in a build with overflow checks and wraps to 0 in one   *)
(* without; oc says which build this is.                                   *)
(***************************************************************************)
Overflows(a, oc) == oc /\ a.clock = U32_MAX
Tick(a) == [a EXCEPT !.clock = (a.clock + 1) % (U32_MAX + 1)]

\* the hit branch without the test of the codepoint: every entry is stamped
TouchEvery(a, i) ==
    [a EXCEPT !.entries =
        [j \in DOMAIN a.entries |->
            IF a.entries[j] = <<>> THEN <<>>
            ELSE <<[a.entries[j][1] EXCEPT !.last_used = a.clock]>>]]

\* the hit branch of the scan: e.last_used = clock on the entry in slot i
Touch(a, i) ==
    [a EXCEPT !.entries[i] = Some([a.entries[i][1] EXCEPT !.last_used = a.clock])]

\* SdfAtlas::lookup
lookup(a, ch, oc) ==
    IF Overflows(a, oc) THEN Outcome(a, "overflow", None, FALSE, NoSlot, None)
    ELSE
      LET a1 == Tick(a)
          S  == SlotsOf(a1.entries, ch)
      IN  IF S # {}
          THEN LET i  == MinOf(S)
                   a2 == Touch(a1, i)
               IN  Outcome(a2, "none", a2.entries[i], TRUE, i, None)
          ELSE Returns(a1, None)

(***************************************************************************)
(* The f32 arithmetic of the UV rectangle.  An f32 is the pair (m, e) that *)
(* stands for m * 2^e: m = 0 for 0.0, and 2^23 <= m < 2^24 otherwise.      *)
(* Every operation rounds the exact result to the nearest such pair, ties  *)
(* to the even mantissa, as IEEE 754 binary32 does.                        *)
(***************************************************************************)
F32(m, e) == [m |-> m, e |-> e]
F32_ZERO == F32(0, 0)
F32_ONE == F32(2 ^ 23, 0 - 23)

\* the number of binary digits of n
RECURSIVE BitLen(_)
BitLen(n) == IF n = 0 THEN 0 ELSE 1 + BitLen(n \div 2)

\* n = OddPart(n) * 2^TwoPart(n)
RECURSIVE TwoPart(_)
TwoPart(n) == IF n = 0 \/ n % 2 = 1 THEN 0 ELSE 1 + TwoPart(n \div 2)
OddPart(n) == n \div (2 ^ TwoPart(n))

\* the f32 nearest to (n + f) * 2^e, where 0 <= f < 1 and sticky says f > 0
F32Round(n, e, sticky) ==
    IF n = 0 THEN F32_ZERO
    ELSE LET b == BitLen(n)
         IN  IF b <= 24 THEN F32(n * 2 ^ (24 - b), e - (24 - b))
             ELSE LET s    == b - 24
                      q    == n \div (2 ^ s)
                      r    == n % (2 ^ s)
                      half == 2 ^ (s - 1)
                      up   == \/ r > half
                              \/ r = half /\ (sticky \/ q % 2 = 1)
                      q1   == IF up THEN q + 1 ELSE q
                  IN  IF q1 = 2 ^ 24 THEN F32(2 ^ 23, e + s + 1)
                      ELSE F32(q1, e + s)

\* 1.0 / (n as f32): 1/n is 2^30/OddPart(n) * 2^(-30 - TwoPart(n))
F32Recip(n) ==
    LET d == OddPart(n)
    IN  F32Round((2 ^ 30) \div d, 0 - 30 - TwoPart(n), (2 ^ 30) % d # 0)

\* (k as f32) * x for an integer k that an f32 holds exactly: the product is OddPart(k) * x.m * 2^(x.e + TwoPart(k))
F32MulInt(k, x) ==
    IF k = 0 THEN F32_ZERO
    ELSE F32Round(OddPart(k) * x.m, x.e + TwoPart(k), FALSE)

\* a + b
F32Add(a, b) ==
    IF a.m = 0 THEN b
    ELSE IF b.m = 0 THEN a
    ELSE LET e == IF a.e < b.e THEN a.e ELSE b.e
         IN  F32Round(a.m * 2 ^ (a.e - e) + b.m * 2 ^ (b.e - e), e, FALSE)

\* a <= b
F32Le(a, b) ==
    IF a.m = 0 THEN TRUE
    ELSE IF b.m = 0 THEN FALSE
    ELSE LET e == IF a.e < b.e THEN a.e ELSE b.e
         IN  a.m * 2 ^ (a.e - e) <= b.m * 2 ^ (b.e - e)

\* GLYPH_SDF_SIZE as the source has it; the UV arithmetic is done with this
\* value, whatever the side of the tiles of the model is
UV_TILE == 32

\* the AtlasEntry that get_or_insert builds for a slot; inv_tex is
\* 1.0 / tex_size as f32
MakeEntry(a, ch, slot, sdf) ==
    LET tile_x   == slot % a.dim
        tile_y   == slot \div a.dim
        inv_tex  == F32Recip(a.dim * UV_TILE)
    IN  [codepoint |-> ch,
         tile_x    |-> tile_x,
         tile_y    |-> tile_y,
         uv_x      |-> F32MulInt(tile_x * UV_TILE, inv_tex),
         uv_y      |-> F32MulInt(tile_y * UV_TILE, inv_tex),
         uv_w      |-> F32MulInt(UV_TILE, inv_tex),
         uv_h      |-> F32MulInt(UV_TILE, inv_tex),
         advance   |-> sdf.advance,
         lsb       |-> sdf.lsb,
         last_used |-> a.clock]

\* the end of get_or_insert without the is_none test
StoreAlwaysCounts(a, slot, entry) ==
    [a EXCEPT !.occupied = a.occupied + 1, !.entries[slot] = Some(entry)]

\* the end of get_or_insert: count the slot if it was empty, then write it
Store(a, slot, entry) ==
    LET a1 == IF a.entries[slot] = None
              THEN [a EXCEPT !.occupied = a.occupied + 1]
              ELSE a
    IN  [a1 EXCEPT !.entries[slot] = Some(entry)]

\* SdfAtlas::get_or_insert
get_or_insert(a, ch, oc) ==
    IF Overflows(a, oc) THEN Outcome(a, "overflow", None, FALSE, NoSlot, None)
    ELSE
      LET a1 == Tick(a)
          S  == SlotsOf(a1.entries, ch)
      IN  IF S # {}
          THEN LET i  == MinOf(S)
                   a2 == Touch(a1, i)
               IN  Outcome(a2, "none", a2.entries[i], TRUE, i, None)
          ELSE
            LET sdf  == generate(a1.generator, AsciiOf(ch))
                slot == find_slot(a1)
            IN  IF a1.dim = 0
                THEN \* slot % self.dim
                     Outcome(a1, "div_zero", None, FALSE, slot, None)
                ELSE IF slot \notin DOMAIN a1.entries
                THEN \* self.pixels[dst], self.entries[slot]
                     Outcome(a1, "index", None, FALSE, slot, None)
                ELSE
                  LET a2    == blit_tile(a1, slot % a1.dim, slot \div a1.dim, sdf)
                      entry == MakeEntry(a2, ch, slot, sdf)
                      old   == a2.entries[slot]
                  IN  Outcome(Store(a2, slot, entry), "none", Some(entry),
                              FALSE, slot,
                              IF old = None THEN None
                              ELSE Some(old[1].codepoint))

\* SdfAtlas::preload: get_or_insert for each char of the slice, in order
RECURSIVE preload(_, _, _)
preload(a, chars, oc) ==
    IF chars = <<>> THEN Returns(a, None)
    ELSE LET r == get_or_insert(a, Head(chars), oc)
         IN  IF r.fault # "none" THEN r
             ELSE preload(r.a, Tail(chars), oc)

(***************************************************************************)
(* The text shaper (shaper.rs).  A Vec is a sequence; an index of the      *)
(* source is 0-based and the element at index i is the i+1-th of the       *)
(* sequence.  Em lengths are fixed-point numbers on the grid of One.       *)
(***************************************************************************)
MAX_KERN_PAIRS == 64

\* KernEntry::make_key: left in the high half of the key and right in the
\* low half.  The source shifts by 32 binary digits; a char is below 2^21,
\* and with this shift the keys of the model compare as those of the source.
KEY_SHIFT == 2 ^ 21
make_key(left, right) == left * KEY_SHIFT + right

\* KernEntry::new
KernEntry(left, right, adjustment) ==
    [key |-> make_key(left, right), adjustment |-> adjustment]

\* slice::binary_search_by_key: found with the index of the match, or not
\* found with the index where the key would be inserted
RECURSIVE BinarySearch(_, _, _, _)
BinarySearch(tbl, key, left, right) ==
    IF left >= right THEN [found |-> FALSE, idx |-> left]
    ELSE LET mid == left + (right - left) \div 2
         IN  IF tbl[mid + 1].key = key THEN [found |-> TRUE, idx |-> mid]
             ELSE IF tbl[mid + 1].key < key
                  THEN BinarySearch(tbl, key, mid + 1, right)
                  ELSE BinarySearch(tbl, key, left, mid)

binary_search_by_key(tbl, key) == BinarySearch(tbl, key, 0, Len(tbl))

\* Vec::insert(idx, entry)
VecInsert(tbl, idx, entry) ==
    SubSeq(tbl, 1, idx) \o <<entry>> \o SubSeq(tbl, idx + 1, Len(tbl))

\* slice::sort_unstable_by_key: ascending by key
RECURSIVE sort_unstable_by_key(_)
sort_unstable_by_key(tbl) ==
    IF tbl = <<>> THEN <<>>
    ELSE LET rest == sort_unstable_by_key(Tail(tbl))
             head == Head(tbl)
             n    == Cardinality({i \in 1..Len(rest) : rest[i].key < head.key})
         IN  VecInsert(rest, n, head)

\* the pairs of build_default_kern_table: 'A' 65, 'L' 76, 'T' 84, 'V' 86,
\* 'W' 87, 'Y' 89, 'a' 97, 'e' 101, 'f' 102, 'o' 111, 'r' 114
kern_data ==
    << <<65, 86, 0 - 4>>, <<65, 87, 0 - 3>>, <<65, 89, 0 - 4>>,
       <<65, 84, 0 - 4>>, <<86, 65, 0 - 4>>, <<87, 65, 0 - 3>>,
       <<89, 65, 0 - 4>>, <<84, 65, 0 - 4>>,
       <<84, 111, 0 - 3>>, <<84, 97, 0 - 3>>, <<84, 101, 0 - 3>>,
       <<76, 84, 0 - 3>>, <<76, 86, 0 - 3>>, <<76, 89, 0 - 3>>,
       <<114, 97, 0 - 1>>, <<114, 111, 0 - 1>>, <<102, 97, 0 - 1>>,
       <<102, 111, 0 - 1>> >>

\* the loop of build_default_kern_table: push until the table is full
RECURSIVE PushAll(_, _)
PushAll(tbl, data) ==
    IF data = <<>> \/ Len(tbl) >= MAX_KERN_PAIRS THEN tbl
    ELSE PushAll(Append(tbl, KernEntry(Head(data)[1], Head(data)[2],
                                       Head(data)[3])),
                 Tail(data))

\* TextShaper::build_default_kern_table
build_default_kern_table(sh) ==
    [sh EXCEPT !.kern_table = sort_unstable_by_key(PushAll(<<>>, kern_data))]

\* MetaFontParams::sans_regular: the fields the shaper and the advances use
sans_regular ==
    [width |-> One, cap_height |-> 72, ascender |-> 80, descender |-> 22]

\* TextShaper::new
TextShaper_new(p) ==
    build_default_kern_table(
        [params         |-> p,
         kern_table     |-> <<>>,
         line_height    |-> 120,
         letter_spacing |-> 0,
         word_spacing   |-> One])

\* TextShaper::set_line_height
set_line_height(sh, h) == [sh EXCEPT !.line_height = h]

\* add_kern_pair that appends a new pair at the end of the table
add_kern_pair_push(sh, left, right, adjustment) ==
    LET key == make_key(left, right)
        r   == binary_search_by_key(sh.kern_table, key)
    IN  IF r.found
        THEN [sh EXCEPT !.kern_table[r.idx + 1].adjustment = adjustment]
        ELSE IF Len(sh.kern_table) < MAX_KERN_PAIRS
             THEN [sh EXCEPT !.kern_table =
                      Append(sh.kern_table,
                             [key |-> key, adjustment |-> adjustment])]
             ELSE sh

\* TextShaper::add_kern_pair
add_kern_pair(sh, left, right, adjustment) ==
    LET key == make_key(left, right)
        r   == binary_search_by_key(sh.kern_table, key)
    IN  IF r.found
        THEN [sh EXCEPT !.kern_table[r.idx + 1].adjustment = adjustment]
        ELSE IF Len(sh.kern_table) < MAX_KERN_PAIRS
             THEN [sh EXCEPT !.kern_table =
                      VecInsert(sh.kern_table, r.idx,
                                [key |-> key, adjustment |-> adjustment])]
             ELSE sh

\* TextShaper::kern
kern(sh, left, right) ==
    LET r == binary_search_by_key(sh.kern_table, make_key(left, right))
    IN  IF r.found THEN sh.kern_table[r.idx + 1].adjustment ELSE 0

\* ' ' and '\n'
SPACE == 32
NEWLINE == 10

\* the advance that the builder of a skeleton sets, for the generator of
\* sans_regular: w + 0.1 with w = cap_height * 0.65 for 'A' and 'V' and
\* cap_height * 0.55 for 'B', w + 0.08 with w = cap_height * 0.45 for '?'
\* and with w = 0.4 for the placeholder
AdvanceEm(adv) ==
    CASE adv.skel = 65 -> Mul(sans_regular.cap_height, 65) + 10
      [] adv.skel = 86 -> Mul(sans_regular.cap_height, 65) + 10
      [] adv.skel = 66 -> Mul(sans_regular.cap_height, 55) + 10
      [] adv.skel = 63 -> Mul(sans_regular.cap_height, 45) + 8
      [] adv.skel = PLACEHOLDER -> 40 + 8

ShapedLine(glyphs, width, y_offset) ==
    [glyphs |-> glyphs, width |-> width, y_offset |-> y_offset]

\* what shape_line and shape_text leave: the value returned, the atlas and
\* the fault of the get_or_insert that ended the call, if one did
Shaped(ret, a, f) == [ret |-> ret, a |-> a, fault |-> f]

\* the rest of one turn of the loop of shape_line, r being what
\* atlas.get_or_insert(ch) left
RECURSIVE ShapeChars(_, _, _, _, _, _, _)
ShapeGlyph(sh, text, oc, kerned, glyphs, r) ==
    IF r.fault # "none"
    THEN Shaped(ShapedLine(glyphs, kerned, 0), r.a, r.fault)
    ELSE LET entry == r.ret[1]
             glyph == [codepoint |-> Head(text),
                       x         |-> kerned + entry.lsb,
                       y         |-> 0,
                       advance   |-> AdvanceEm(entry.advance),
                       lsb       |-> entry.lsb]
         IN  ShapeChars(sh, Tail(text), r.a, oc,
                        kerned + AdvanceEm(entry.advance) + sh.letter_spacing,
                        Some(Head(text)), Append(glyphs, glyph))

\* the loop of shape_line over the chars of the text
ShapeChars(sh, text, a, oc, cursor_x, prev_char, glyphs) ==
    IF text = <<>> THEN Shaped(ShapedLine(glyphs, cursor_x, 0), a, "none")
    ELSE
      LET ch == Head(text)
          space_advance == Mul(sh.params.width, 30)
      IN  IF ch = SPACE
          THEN ShapeChars(sh, Tail(text), a, oc,
                          cursor_x + Mul(space_advance, sh.word_spacing)
                                   + sh.letter_spacing,
                          Some(ch), glyphs)
          ELSE
            CHOOSE out \in
                {ShapeGlyph(sh, text, oc, kerned, glyphs, r) :
                    kerned \in {IF prev_char # None
                                THEN cursor_x + kern(sh, prev_char[1], ch)
                                ELSE cursor_x},
                    r \in {get_or_insert(a, ch, oc)}} : TRUE

\* TextShaper::shape_line
shape_line(sh, text, a, oc) == ShapeChars(sh, text, a, oc, 0, None, <<>>)

\* str::split: the pieces between the separators, one more than there are
\* separators
RECURSIVE SplitFrom(_, _, _)
SplitFrom(text, sep, piece) ==
    IF text = <<>> THEN <<piece>>
    ELSE IF Head(text) = sep
         THEN <<piece>> \o SplitFrom(Tail(text), sep, <<>>)
         ELSE SplitFrom(Tail(text), sep, Append(piece, Head(text)))

Split(text, sep) == SplitFrom(text, sep, <<>>)

\* line_step of shape_text
LineStep(sh) ==
    Mul(sh.line_height, sh.params.ascender + sh.params.descender)

\* a ShapedLine pushed on lines with y_offset = lines.len() * line_step,
\* r being what shape_line left
Pushed(sh, lines, r) ==
    IF r.fault # "none" THEN Shaped(lines, r.a, r.fault)
    ELSE Shaped(Append(lines, [r.ret EXCEPT
                                  !.y_offset = Len(lines) * LineStep(sh)]),
                r.a, "none")

\* shape_line of a line of the text, pushed on lines
EmitLine(sh, text, lines, a, oc) ==
    CHOOSE out \in {Pushed(sh, lines, r) :
                       r \in {shape_line(sh, text, a, oc)}} : TRUE

\* one turn of the word-wrap loop after test_line was shaped: the current
\* line is emitted if the word does not fit, and the last word closes the
\* line it is on
WrapStep(sh, word, last_word, current_line, test_line, lines, oc, max_width, test_shaped) ==
    IF test_shaped.fault # "none"
    THEN [cur |-> current_line,
          out |-> Shaped(lines, test_shaped.a, test_shaped.fault)]
    ELSE
      LET wraps == test_shaped.ret.width > max_width /\ current_line # <<>>
          cur   == IF wraps THEN word ELSE test_line
      IN  CHOOSE res \in
              {[cur |-> cur,
                out |-> IF e1.fault = "none" /\ last_word /\ cur # <<>>
                        THEN EmitLine(sh, cur, e1.ret, e1.a, oc)
                        ELSE e1] :
                  e1 \in {IF wraps
                          THEN EmitLine(sh, current_line, lines,
                                        test_shaped.a, oc)
                          ELSE Shaped(lines, test_shaped.a, "none")}} : TRUE

\* the word-wrap loop of shape_text over words[i..]
RECURSIVE WrapWords(_, _, _, _, _, _, _, _)
WrapWords(sh, words, i, current_line, lines, a, oc, max_width) ==
    IF i >= Len(words) THEN Shaped(lines, a, "none")
    ELSE
      LET word == words[i + 1]
          test_line == IF current_line = <<>> THEN word
                       ELSE current_line \o <<SPACE>> \o word
      IN  CHOOSE out \in
              {IF st.out.fault # "none" THEN st.out
               ELSE WrapWords(sh, words, i + 1, st.cur, st.out.ret, st.out.a,
                              oc, max_width) :
                  st \in {WrapStep(sh, word, i = Len(words) - 1, current_line,
                                   test_line, lines, oc, max_width,
                                   shape_line(sh, test_line, a, oc))}} : TRUE

\* one turn of the loop of shape_text: a line of the text is shaped whole,
\* or word by word when 0 < max_width < 1e6
ShapeRawLine(sh, raw_line, lines, a, oc, max_width) ==
    IF max_width <= 0 \/ max_width >= 1000000 * One
    THEN EmitLine(sh, raw_line, lines, a, oc)
    ELSE LET words == Split(raw_line, SPACE)
         IN  CHOOSE out \in
                 {IF w.fault = "none" /\ words = <<>>
                  THEN Shaped(Append(w.ret,
                                     ShapedLine(<<>>, 0,
                                                Len(w.ret) * LineStep(sh))),
                              w.a, "none")
                  ELSE w :
                     w \in {WrapWords(sh, words, 0, <<>>, lines, a, oc,
                                      max_width)}} : TRUE

\* the loop of shape_text over the lines of the text
RECURSIVE ShapeRawLines(_, _, _, _, _, _)
ShapeRawLines(sh, raw_lines, lines, a, oc, max_width) ==
    IF raw_lines = <<>> THEN Shaped(lines, a, "none")
    ELSE CHOOSE out \in
             {IF r.fault # "none" THEN r
              ELSE ShapeRawLines(sh, Tail(raw_lines), r.ret, r.a, oc,
                                 max_width) :
                 r \in {ShapeRawLine(sh, Head(raw_lines), lines, a, oc,
                                     max_width)}} : TRUE

\* TextShaper::shape_text
shape_text(sh, text, a, max_width, oc) ==
    ShapeRawLines(sh, Split(text, NEWLINE), <<>>, a, oc, max_width)

(***************************************************************************)
(* The font license (license.rs).  A u64 is the sequence of its four       *)
(* 20-bit pieces, lowest first (the last piece holds 4 bits), so that the  *)
(* wrapping product of FNV-1a is computed exactly.  A bit field is the     *)
(* integer it is in the source.  content_hash and _reserved, which the     *)
(* validator does not read, are left out of a FontLicense.                 *)
(***************************************************************************)
PIECE == 2 ^ 20

\* the bitwise operators of the source on unsigned integers
RECURSIVE BitXor(_, _)
BitXor(a, b) ==
    IF a = 0 /\ b = 0 THEN 0
    ELSE ((a + b) % 2) + 2 * BitXor(a \div 2, b \div 2)

RECURSIVE BitAnd(_, _)
BitAnd(a, b) ==
    IF a = 0 \/ b = 0 THEN 0
    ELSE (a % 2) * (b % 2) + 2 * BitAnd(a \div 2, b \div 2)

\* 0xcbf29ce484222325 and the low part of 0x100000001b3 = 2^40 + 0x1b3
FNV_OFFSET == <<140069, 936002, 783004, 12>>
FNV_PRIME_LOW == 435

\* h ^= b as u64
XorByte(h, b) ==
    [h EXCEPT ![1] = (h[1] \div 256) * 256 + BitXor(h[1] % 256, b)]

\* h.wrapping_mul(0x100000001b3): h * 0x1b3 + (h << 40), modulo 2^64
WrappingMul(h) ==
    LET t0 == h[1] * FNV_PRIME_LOW
        t1 == h[2] * FNV_PRIME_LOW + (t0 \div PIECE)
        t2 == h[3] * FNV_PRIME_LOW + h[1] + (t1 \div PIECE)
        t3 == h[4] * FNV_PRIME_LOW + h[2] + (t2 \div PIECE)
    IN  <<t0 % PIECE, t1 % PIECE, t2 % PIECE, t3 % 16>>

\* one turn of the loop of fnv1a
FnvByte(h, b) ==
    CHOOSE out \in {WrappingMul(x) : x \in {XorByte(h, b)}} : TRUE

\* the loop of fnv1a over data[lo..=hi], 1-based
RECURSIVE FnvLoop(_, _, _, _)
FnvLoop(h, data, lo, hi) ==
    IF lo > hi THEN h
    ELSE IF lo = hi THEN FnvByte(h, data[lo])
    ELSE CHOOSE out \in
             {FnvLoop(half, data, (lo + hi) \div 2 + 1, hi) :
                 half \in {FnvLoop(h, data, lo, (lo + hi) \div 2)}} : TRUE

\* fnv1a
fnv1a(data) == FnvLoop(FNV_OFFSET, data, 1, Len(data))

\* UsageRights
COMMERCIAL == 1
MODIFICATION == 2
REDISTRIBUTION == 4
EMBEDDING == 8
GAME_BUNDLE == 256
GAME_STANDARD == COMMERCIAL + EMBEDDING + GAME_BUNDLE + MODIFICATION
RIGHTS_ALL == 1023

\* PlatformRestriction
PC == 1
MOBILE == 4
PLATFORMS_ALL == 63

\* UsageRights::has and PlatformRestriction::has
has(self, flag) == BitAnd(self, flag) = flag

\* FontLicense::parametric_free
parametric_free(params_encoded) ==
    [params_hash   |-> fnv1a(params_encoded),
     title_id      |-> 0,
     expires_epoch |-> 0,
     rights        |-> RIGHTS_ALL,
     max_seats     |-> 0,
     license_type  |-> "Parametric",
     platforms     |-> PLATFORMS_ALL]

\* FontLicense::for_game_title
for_game_title(params_encoded, title_id, platforms) ==
    [params_hash   |-> fnv1a(params_encoded),
     title_id      |-> title_id,
     expires_epoch |-> 0,
     rights        |-> GAME_STANDARD,
     max_seats     |-> 0,
     license_type  |-> "Commercial",
     platforms     |-> platforms]

\* validate with an expiry check that takes the epoch of expiry as expired
validate_expired_at_epoch(lic, current_epoch, platform, required_right, title_id, current_seats, params_encoded) ==
    IF lic.license_type = "Parametric"
    THEN IF fnv1a(params_encoded) # lic.params_hash
         THEN "ParamsMismatch"
         ELSE "Valid"
    ELSE IF lic.expires_epoch > 0 /\ current_epoch >= lic.expires_epoch
         THEN "Expired"
    ELSE IF ~has(lic.platforms, platform) THEN "PlatformDenied"
    ELSE IF ~has(lic.rights, required_right) THEN "RightDenied"
    ELSE IF lic.title_id # 0 /\ lic.title_id # title_id
         THEN "TitleMismatch"
    ELSE IF lic.max_seats > 0 /\ current_seats > lic.max_seats
         THEN "SeatLimitExceeded"
    ELSE IF fnv1a(params_encoded) # lic.params_hash THEN "ParamsMismatch"
    ELSE "Valid"

\* LicenseValidator::validate
validate(lic, current_epoch, platform, required_right, title_id, current_seats, params_encoded) ==
    IF lic.license_type = "Parametric"
    THEN IF fnv1a(params_encoded) # lic.params_hash
         THEN "ParamsMismatch"
         ELSE "Valid"
    ELSE IF lic.expires_epoch > 0 /\ current_epoch > lic.expires_epoch
         THEN "Expired"
    ELSE IF ~has(lic.platforms, platform) THEN "PlatformDenied"
    ELSE IF ~has(lic.rights, required_right) THEN "RightDenied"
    ELSE IF lic.title_id # 0 /\ lic.title_id # title_id
         THEN "TitleMismatch"
    ELSE IF lic.max_seats > 0 /\ current_seats > lic.max_seats
         THEN "SeatLimitExceeded"
    ELSE IF fnv1a(params_encoded) # lic.params_hash THEN "ParamsMismatch"
    ELSE "Valid"

\* LicenseValidator::validate_commercial_game
validate_commercial_game(lic, current_epoch, platform, title_id, params_encoded) ==
    validate(lic, current_epoch, platform, COMMERCIAL + GAME_BUNDLE, title_id,
             0, params_encoded)

\* MetaFontParams::encode of sans_regular, sans_bold and serif_regular: ten
\* f32 fields, little-endian
EncodedList ==
    << <<102, 102, 230, 62, 0, 0, 128, 63, 0, 0,
       0, 0, 154, 153, 25, 62, 0, 0, 0, 0,
       184, 30, 5, 63, 236, 81, 56, 63, 205, 204,
       76, 63, 174, 71, 97, 62, 154, 153, 153, 62>>,
       <<0, 0, 64, 63, 92, 143, 130, 63, 0, 0,
         0, 0, 205, 204, 204, 61, 0, 0, 0, 0,
         113, 61, 10, 63, 236, 81, 56, 63, 205, 204,
         76, 63, 174, 71, 97, 62, 154, 153, 153, 62>>,
       <<61, 10, 215, 62, 0, 0, 128, 63, 205, 204,
         76, 63, 205, 204, 12, 63, 0, 0, 0, 0,
         102, 102, 230, 62, 123, 20, 46, 63, 20, 174,
         71, 63, 174, 71, 97, 62, 205, 204, 204, 61>> >>

(***************************************************************************)
(* State: the fields of one SdfAtlas, the build it runs in, the fault that *)
(* ended the program (if any), the number of calls made, and the last call *)
(* with its result; one GlyphSkeleton with the pen of the generator that   *)
(* rasterizes it; one TextShaper; and one FontLicense.                      *)
(***************************************************************************)
VARIABLES dim, pixels, entries, params, generator, clock, occupied,
          overflow_checks, fault, last, calls, skeleton, pen, shaper, license

vars == <<dim, pixels, entries, params, generator, clock, occupied,
          overflow_checks, fault, last, calls, skeleton, pen, shaper,
          license>>

Self == [dim |-> dim, pixels |-> pixels, entries |-> entries,
         params |-> params, generator |-> generator, clock |-> clock,
         occupied |-> occupied]

SelfNext == [dim |-> dim', pixels |-> pixels', entries |-> entries',
             params |-> params', generator |-> generator', clock |-> clock',
             occupied |-> occupied']

Is(a) ==
    /\ dim = a.dim
    /\ pixels = a.pixels
    /\ entries = a.entries
    /\ params = a.params
    /\ generator = a.generator
    /\ clock = a.clock
    /\ occupied = a.occupied

Becomes(a) ==
    /\ dim' = a.dim
    /\ pixels' = a.pixels
    /\ entries' = a.entries
    /\ params' = a.params
    /\ generator' = a.generator
    /\ clock' = a.clock
    /\ occupied' = a.occupied

\* what the atlas was when the call was made
Pre(a) == [occupied |-> a.occupied, clock |-> a.clock, params |-> a.params,
           dim |-> a.dim, pixels_len |-> Cardinality(DOMAIN a.pixels),
           entries_len |-> Cardinality(DOMAIN a.entries)]

\* the record of a call: again says that the call before it was the same call
Call(op, args, r, a, again) ==
    [op |-> op, args |-> args, ret |-> r.ret, hit |-> r.hit, slot |-> r.slot,
     victim |-> r.victim, pre |-> Pre(a), again |-> again]

\* the pens, strokes, angles and tangents the callers use
PenList == <<Pen(8, 0), Pen(5, 50), Pen(0, 0), Pen(8, One), Pen(3, 0)>>
Pens == {PenList[i] : i \in 1..NumPens}
StrokeList ==
    <<line(Point2(0, 0), Point2(64, 0)),
      line(Point2(0, 0), Point2(0, 64)),
      line(Point2(32, 16), Point2(32, 16)),
      StrokeNew(Point2(0, 0), Point2(0, 64), Point2(64, 64), Point2(64, 0)),
      line(Point2(64, 0), Point2(0, 48))>>
Strokes == {StrokeList[i] : i \in 1..NumStrokes}
AngleList == <<0, FRAC_PI_2, 0 - One, 7 * One, One \div 2, PI>>
Angles == {AngleList[i] : i \in 1..NumAngles}
TangentList ==
    <<ZERO, Point2(One, 0), Point2(0 - 50, 20), Point2(0, 0 - 7),
      Point2(One, One)>>
Tangents == {TangentList[i] : i \in 1..NumTangents}

\* the parameters the atlas is constructed with (sans_regular in the tests)
InitParams == 1

Dims == 0..MaxDim
\* dimensions around the cap of SdfAtlas::new
CapDims == (MAX_ATLAS_DIM - 1)..(MAX_ATLAS_DIM + MaxDim)
\* the slices passed to preload: the first n codepoints of PreloadText
Slices == {[k \in 1..n |-> PreloadText[k]] :
              n \in {m \in 0..MaxPreload : m <= Len(PreloadText)}}
\* texture coordinates passed to sample: the first texel and one further out
Coords == {0, MaxCoord}

\* the state after SdfAtlas::new(d, InitParams) for a d of D
InitWith(D) ==
    \E d \in D :
        /\ Is(new(d, InitParams))
        /\ overflow_checks \in BOOLEAN
        /\ fault = "none"
        /\ last = Call("new", <<d, InitParams>>,
                       Returns(new(d, InitParams), None),
                       new(d, InitParams), FALSE)
        /\ calls = 0
        /\ skeleton = GlyphSkeleton_empty
        /\ pen = PenList[1]
        /\ shaper = TextShaper_new(sans_regular)
        /\ license = parametric_free(EncodedList[1])

Init == InitWith(Dims)

Live == fault = "none" /\ calls < MaxCalls

\* one call on the atlas: outcome is what the call does to this atlas
Do(op, args, outcome) ==
    \E r \in {outcome} :
        /\ Becomes(r.a)
        /\ fault' = r.fault
        /\ last' = Call(op, args, r, Self, last.op = op /\ last.args = args)
        /\ calls' = calls + 1
        /\ UNCHANGED <<overflow_checks, skeleton, pen, shaper, license>>

GetOrInsert ==
    \E ch \in Chars :
        /\ Live
        /\ Do("get_or_insert", <<ch>>, get_or_insert(Self, ch, overflow_checks))

Lookup ==
    \E ch \in Chars :
        /\ Live
        /\ Do("lookup", <<ch>>, lookup(Self, ch, overflow_checks))

Preload ==
    \E chars \in Slices :
        /\ Live
        /\ Do("preload", chars, preload(Self, chars, overflow_checks))

Clear ==
    /\ Live
    /\ Do("clear", <<>>, Returns(clear(Self), None))

SetParams ==
    \E p \in Params :
        /\ Live
        /\ Do("set_params", <<p>>, Returns(set_params(Self, p), None))

\* peek that touches the entry as lookup does
PeekTouches ==
    \E ch \in Chars :
        /\ Live
        /\ Do("peek", <<ch>>,
              [lookup(Self, ch, FALSE) EXCEPT !.hit = FALSE, !.slot = NoSlot])

\* the &self methods: they return a value and cannot write to the atlas
Peek ==
    \E ch \in Chars :
        /\ Live
        /\ Do("peek", <<ch>>, Returns(Self, peek(Self, ch)))

Contains ==
    \E ch \in Chars :
        /\ Live
        /\ Do("contains", <<ch>>, Returns(Self, contains(Self, ch)))

Sample ==
    \E x \in Coords, y \in Coords :
        /\ Live
        /\ Do("sample", <<x, y>>, sample(Self, x, y))

Next ==
    \/ GetOrInsert
    \/ Lookup
    \/ Preload
    \/ Clear
    \/ SetParams
    \/ Peek
    \/ Contains
    \/ Sample

Spec == Init /\ [][Next]_vars

\* the same program with the requested dimension also taken around the cap;
\* an atlas larger than MaxDim is followed for one call
InitCap == InitWith(Dims \cup CapDims)
Near == dim <= MaxDim \/ calls = 0
NextCap ==
    \/ Near /\ GetOrInsert
    \/ Near /\ Lookup
    \/ Near /\ Preload
    \/ Near /\ Clear
    \/ Near /\ SetParams
    \/ Near /\ Peek
    \/ Near /\ Contains
    \/ Near /\ Sample
SpecCap == InitCap /\ [][NextCap]_vars

\* the same program on atlases wide enough for a row of seven tiles, filled
\* by one preload of distinct codepoints
RowText == <<65, 66, 72, 73, 84, 63, 7>>
RowSlices == {[k \in 1..n |-> RowText[k]] : n \in 0..Len(RowText)}
RowDims == {6, 7}
InitRow == InitWith(RowDims)
PreloadRow ==
    \E chars \in RowSlices :
        /\ Live
        /\ Do("preload", chars, preload(Self, chars, overflow_checks))
NextRow ==
    \/ PreloadRow
    \/ GetOrInsert
    \/ Lookup
SpecRow == InitRow /\ [][NextRow]_vars

(***************************************************************************)
(* The glyph side alone: a skeleton as a build_* function leaves it (n     *)
(* strokes added to GlyphSkeleton::empty(), advance set), a pen, and then  *)
(* calls of add_stroke, rasterize_sdf and the pen's half-width functions.  *)
(* The atlas is left as constructed.                                       *)
(***************************************************************************)
RECURSIVE Built(_, _)
Built(n, adv) ==
    IF n = 0 THEN [GlyphSkeleton_empty EXCEPT !.advance = adv]
    ELSE add_stroke(Built(n - 1, adv), StrokeList[1])

\* the skeletons the calls start from: none or one stroke, and one stroke
\* short of full or full; the advance is the default 0.5 or one a builder set
Starts ==
    {Built(0, One \div 2), Built(0, 35), Built(1, 35),
     Built(MAX_GLYPH_STROKES - 1, 48), Built(MAX_GLYPH_STROKES, 48)}

\* the record of a call on the glyph side: pre is the skeleton it was made on
GlyphCall(op, args, ret) ==
    [op |-> op, args |-> args, ret |-> ret, pre |-> skeleton]

InitGlyph ==
    /\ Is(new(0, InitParams))
    /\ overflow_checks = FALSE
    /\ fault = "none"
    /\ calls = 0
    /\ pen \in Pens
    /\ skeleton \in Starts
    /\ shaper = TextShaper_new(sans_regular)
    /\ license = parametric_free(EncodedList[1])
    /\ last = GlyphCall("empty", <<>>, None)

\* one call on the glyph side
GlyphDo(op, args, ret, skel) ==
    /\ skeleton' = skel
    /\ last' = GlyphCall(op, args, ret)
    /\ calls' = calls + 1
    /\ UNCHANGED <<dim, pixels, entries, params, generator, clock, occupied,
                   overflow_checks, fault, pen, shaper, license>>

AddStroke ==
    \E stroke \in Strokes :
        /\ Live
        /\ GlyphDo("add_stroke", <<stroke>>, None,
                   add_stroke(skeleton, stroke))

Rasterize ==
    /\ Live
    /\ GlyphDo("rasterize_sdf", <<>>, rasterize_sdf(pen, skeleton), skeleton)

HalfWidthAtAngle ==
    \E a \in Angles :
        /\ Live
        /\ GlyphDo("half_width_at_angle", <<a>>, half_width_at_angle(pen, a),
                   skeleton)

HalfWidth ==
    \E t \in Tangents :
        /\ Live
        /\ GlyphDo("half_width", <<t>>, half_width(pen, t), skeleton)

NextGlyph ==
    \/ AddStroke
    \/ Rasterize
    \/ HalfWidthAtAngle
    \/ HalfWidth

SpecGlyph == InitGlyph /\ [][NextGlyph]_vars

(***************************************************************************)
(* The kerning table alone: a shaper as TextShaper::new leaves it, or with *)
(* pairs added until the table is one short of full or full, and then      *)
(* calls of add_kern_pair and kern.                                        *)
(***************************************************************************)
\* ('A','V') is in the default table; ('Z','Z') falls inside it, ('A','A')
\* before its first key and ('x','x') after its last
PairList == << <<65, 86>>, <<90, 90>>, <<65, 65>>, <<120, 120>>, <<72, 73>> >>
Pairs == {PairList[i] : i \in 1..NumPairs}
AdjList == <<0 - 10, 0 - 2, 3, 0>>
Adjs == {AdjList[i] : i \in 1..NumAdjs}

\* add_kern_pair(c, '0', -0.01) for the codes c of lo..hi in turn, c from
\* '1' on
RECURSIVE AddPairs(_, _, _)
AddPairs(sh, lo, hi) ==
    IF lo > hi THEN sh
    ELSE IF lo = hi THEN add_kern_pair(sh, 48 + lo, 48, 0 - 1)
    ELSE CHOOSE out \in
             {AddPairs(half, (lo + hi) \div 2 + 1, hi) :
                 half \in {AddPairs(sh, lo, (lo + hi) \div 2)}} : TRUE

\* n pairs added to the default table
Filled(n) == AddPairs(TextShaper_new(sans_regular), 1, n)

KernStarts ==
    {Filled(0),
     Filled(MAX_KERN_PAIRS - 1 - Len(kern_data)),
     Filled(MAX_KERN_PAIRS - Len(kern_data))}

\* the record of a call on the shaper: pre is the shaper it was made on
ShaperCall(op, args, ret) ==
    [op |-> op, args |-> args, ret |-> ret, pre |-> shaper]

InitKern ==
    /\ Is(new(0, InitParams))
    /\ overflow_checks = FALSE
    /\ fault = "none"
    /\ calls = 0
    /\ pen = PenList[1]
    /\ skeleton = GlyphSkeleton_empty
    /\ shaper \in KernStarts
    /\ license = parametric_free(EncodedList[1])
    /\ last = ShaperCall("new", <<>>, None)

\* one call on the shaper that leaves the atlas alone
ShaperDo(op, args, ret, sh) ==
    /\ shaper' = sh
    /\ last' = ShaperCall(op, args, ret)
    /\ calls' = calls + 1
    /\ UNCHANGED <<dim, pixels, entries, params, generator, clock, occupied,
                   overflow_checks, fault, skeleton, pen, license>>

AddKernPair ==
    \E pair \in Pairs, adj \in Adjs :
        /\ Live
        /\ ShaperDo("add_kern_pair", <<pair[1], pair[2], adj>>, None,
                    add_kern_pair(shaper, pair[1], pair[2], adj))

Kern ==
    \E pair \in Pairs :
        /\ Live
        /\ ShaperDo("kern", pair, kern(shaper, pair[1], pair[2]), shaper)

NextKern ==
    \/ AddKernPair
    \/ Kern

SpecKern == InitKern /\ [][NextKern]_vars

(***************************************************************************)
(* The shaper on an atlas: shape_text calls get_or_insert for every glyph  *)
(* it places.                                                              *)
(***************************************************************************)
\* "", "A\n\nV", "A V", "AV\nA", "\n", "A  V", " "
TextList ==
    << <<>>, <<65, 10, 10, 86>>, <<65, 32, 86>>, <<65, 86, 10, 65>>, <<10>>,
       <<65, 32, 32, 86>>, <<32>> >>
Texts == {TextList[i] : i \in 1..NumTexts}
\* max_width: no wrapping (0.0 and 1e6), and widths that hold one glyph or
\* two
WidthList == <<0, 60, 1000000 * One, 130, 0 - 5>>
MaxWidths == {WidthList[i] : i \in 1..NumWidths}
HeightList == <<One, 150, 120>>
Heights == {HeightList[i] : i \in 1..NumHeights}

ShapeDims == {1, 2}

InitShape ==
    \E d \in ShapeDims :
        /\ Is(new(d, InitParams))
        /\ overflow_checks \in BOOLEAN
        /\ fault = "none"
        /\ calls = 0
        /\ pen = PenList[1]
        /\ skeleton = GlyphSkeleton_empty
        /\ shaper = TextShaper_new(sans_regular)
        /\ license = parametric_free(EncodedList[1])
        /\ last = ShaperCall("new", <<>>, None)

ShapeText ==
    \E text \in Texts, max_width \in MaxWidths :
        /\ Live
        /\ \E r \in {shape_text(shaper, text, Self, max_width,
                                overflow_checks)} :
              /\ Becomes(r.a)
              /\ fault' = r.fault
              /\ last' = ShaperCall("shape_text", <<text, max_width>>, r.ret)
              /\ calls' = calls + 1
              /\ UNCHANGED <<overflow_checks, skeleton, pen, shaper,
                             license>>

SetLineHeight ==
    \E h \in Heights :
        /\ Live
        /\ ShaperDo("set_line_height", <<h>>, None, set_line_height(shaper, h))

NextShape ==
    \/ ShapeText
    \/ SetLineHeight

SpecShape == InitShape /\ [][NextShape]_vars

(***************************************************************************)
(* The license validator alone: a license as parametric_free or            *)
(* for_game_title leaves it, with its public fields assigned as the tests  *)
(* of the source assign expires_epoch, and calls of validate on it.        *)
(***************************************************************************)
Encoded == {EncodedList[i] : i \in 1..NumEncoded}

\* platforms of a license and the platform of a call
LicensePlatforms == {PC, PLATFORMS_ALL}
Platforms == {PC, MOBILE}
\* rights of a license and the right a call requires
LicenseRights == {GAME_STANDARD, RIGHTS_ALL}
RequiredRights == {COMMERCIAL + GAME_BUNDLE, REDISTRIBUTION}
\* title ids, 0 being unrestricted
LicenseTitles == {0, 42}
Titles == {42, 99}
\* epochs, 0 being permanent
LicenseEpochs == {0, 1000}
Epochs == {1000, 1001}
\* seats, 0 being unlimited
LicenseSeats == {0, 5}
Seats == {5, 6}

Licenses ==
    {[lic EXCEPT !.rights = r, !.expires_epoch = e, !.max_seats = s] :
        lic \in {parametric_free(p) : p \in Encoded}
                \cup {[parametric_free(p) EXCEPT !.platforms = pl,
                                                 !.title_id = t] :
                         p \in Encoded, pl \in LicensePlatforms,
                         t \in LicenseTitles}
                \cup {for_game_title(p, t, pl) :
                         p \in Encoded, t \in LicenseTitles,
                         pl \in LicensePlatforms},
        r \in LicenseRights, e \in LicenseEpochs, s \in LicenseSeats}

\* the record of a call of the validator
LicenseCall(op, args, ret) ==
    [op |-> op, args |-> args, ret |-> ret, pre |-> license]

InitLicense ==
    /\ Is(new(0, InitParams))
    /\ overflow_checks = FALSE
    /\ fault = "none"
    /\ calls = 0
    /\ pen = PenList[1]
    /\ skeleton = GlyphSkeleton_empty
    /\ shaper = TextShaper_new(sans_regular)
    /\ license \in Licenses
    /\ last = LicenseCall("new", <<>>, None)

\* one call of the validator.  The validator keeps no state, so the first
\* call on a license reaches every result a later call could.
LicenseDo(op, args, ret) ==
    /\ calls = 0
    /\ last' = LicenseCall(op, args, ret)
    /\ calls' = calls + 1
    /\ UNCHANGED <<dim, pixels, entries, params, generator, clock, occupied,
                   overflow_checks, fault, skeleton, pen, shaper, license>>

Validate ==
    \E current_epoch \in Epochs, platform \in Platforms,
       required_right \in RequiredRights, title_id \in Titles,
       current_seats \in Seats, params_encoded \in Encoded :
        /\ fault = "none"
        /\ LicenseDo("validate",
                     <<current_epoch, platform, required_right, title_id,
                       current_seats, params_encoded>>,
                     validate(license, current_epoch, platform,
                              required_right, title_id, current_seats,
                              params_encoded))

ValidateCommercialGame ==
    \E current_epoch \in Epochs, platform \in Platforms, title_id \in Titles,
       params_encoded \in Encoded :
        /\ fault = "none"
        /\ LicenseDo("validate_commercial_game",
                     <<current_epoch, platform, COMMERCIAL + GAME_BUNDLE,
                       title_id, 0, params_encoded>>,
                     validate_commercial_game(license, current_epoch,
                                              platform, title_id,
                                              params_encoded))

NextLicense ==
    \/ Validate
    \/ ValidateCommercialGame

SpecLicense == InitLicense /\ [][NextLicense]_vars

(***************************************************************************)
(* Properties.                                                             *)
(***************************************************************************)
\* the occupied slots of an entry table and the codepoints they hold
Occ(es) == {i \in DOMAIN es : es[i] # None}
Cached(es) == {es[i][1].codepoint : i \in Occ(es)}
Empty(es) == {i \in DOMAIN es : es[i] = None}

\* this step is a call of op / a call of op that returned
Ran(op) == last'.op = op /\ calls' = calls + 1
Returned(op) == Ran(op) /\ fault' = "none"

\* the occupied slot with the smallest last_used, the lowest such slot
LruSlot(es) ==
    CHOOSE i \in Occ(es) :
        \A j \in Occ(es) :
            \/ es[i][1].last_used < es[j][1].last_used
            \/ es[i][1].last_used = es[j][1].last_used /\ i <= j

\* C1: a get_or_insert miss on a full atlas (occupied = capacity >= 1)
\* removes exactly one cached codepoint, the one with the smallest last_used
\* (lowest slot among equals); afterwards that codepoint is not contained,
\* the inserted one and every other one cached before are, and occupied is
\* still the capacity.
C1_EvictsLeastRecentlyUsed ==
    [][ ( /\ Returned("get_or_insert")
          /\ occupied = capacity(Self)
          /\ capacity(Self) >= 1
          /\ ~contains(Self, last'.args[1]) )
        => /\ Occ(entries) # {}
           /\ LET ch == last'.args[1]
                  v  == entries[LruSlot(entries)][1].codepoint
              IN  /\ Cached(entries) \ Cached(entries') = {v}
                  /\ ~contains(SelfNext, v)
                  /\ contains(SelfNext, ch)
                  /\ \A c \in Cached(entries) \ {v} : contains(SelfNext, c)
                  /\ occupied' = capacity(SelfNext) ]_vars

\* a miss on a full 2x2 atlas whose clock has not wrapped evicted the
\* codepoint of a slot other than the first
C1_Witness ==
    /\ last.op = "get_or_insert"
    /\ fault = "none"
    /\ ~last.hit
    /\ last.victim # None
    /\ last.slot >= 1
    /\ dim = 2
    /\ last.pre.occupied = 4
    /\ last.pre.clock >= 5
    /\ clock = last.pre.clock + 1

\* the set of elements of a sequence
Range(q) == {q[i] : i \in 1..Len(q)}

\* C2: eviction never happens while an empty slot exists.  A get_or_insert
\* miss on an atlas with an empty slot leaves every entry as it was, puts
\* the new entry in the lowest empty slot and raises occupied by one; a
\* preload whose missing codepoints fit in the empty slots removes nothing.
C2_NoEvictionWhileEmptySlot ==
    [][ /\ ( /\ Returned("get_or_insert")
             /\ Empty(entries) # {}
             /\ ~contains(Self, last'.args[1]) )
           => /\ \A i \in Occ(entries) : entries'[i] = entries[i]
              /\ Cached(entries') = Cached(entries) \cup {last'.args[1]}
              /\ LET i == MinOf(Empty(entries))
                 IN  /\ entries'[i] # None
                     /\ entries'[i][1].codepoint = last'.args[1]
                     /\ Empty(entries') = Empty(entries) \ {i}
              /\ occupied' = occupied + 1
        /\ ( /\ Returned("preload")
             /\ Cardinality({c \in Range(last'.args) : ~contains(Self, c)})
                   <= Cardinality(Empty(entries)) )
           => /\ Cached(entries) \subseteq Cached(entries')
              /\ occupied' = occupied
                    + Cardinality({c \in Range(last'.args) : ~contains(Self, c)})
      ]_vars

\* a miss went to an empty slot after other slots had been filled
C2_Witness ==
    /\ last.op = "get_or_insert"
    /\ fault = "none"
    /\ ~last.hit
    /\ last.victim = None
    /\ last.slot >= 1
    /\ last.pre.occupied >= 1
    /\ occupied = last.pre.occupied + 1

\* C3: no codepoint is stored in more than one slot.
C3_CodepointInOneSlot ==
    \A i \in Occ(entries) : \A j \in Occ(entries) :
        entries[i][1].codepoint = entries[j][1].codepoint => i = j

\* a codepoint cached in a later slot was asked for again
C3_Witness ==
    /\ last.op = "get_or_insert"
    /\ fault = "none"
    /\ last.hit
    /\ last.slot >= 1
    /\ occupied >= 2

\* C4: occupied() <= capacity() = dim * dim, also after insertions of more
\* distinct codepoints than the atlas has slots.
C4_OccupiedWithinCapacity ==
    /\ capacity(Self) = dim * dim
    /\ occupied <= capacity(Self)
    /\ Cardinality(DOMAIN entries) = capacity(Self)

\* a preload of two distinct codepoints returned on an atlas of one slot
C4_Witness ==
    /\ last.op = "preload"
    /\ fault = "none"
    /\ Len(last.args) >= 2
    /\ last.args[1] # last.args[2]
    /\ dim = 1
    /\ occupied = dim * dim

\* C5: after a get_or_insert(c) that returned, c is contained, the returned
\* entry is c's, and c's last_used is the clock and the largest last_used
\* in the cache.
C5_InsertedIsMostRecent ==
    (last.op = "get_or_insert" /\ fault = "none")
    => LET ch == last.args[1]
       IN  /\ contains(Self, ch)
           /\ last.ret # None
           /\ last.ret[1].codepoint = ch
           /\ peek(Self, ch) = last.ret
           /\ peek(Self, ch)[1].last_used = clock
           /\ \A i \in Occ(entries) : entries[i][1].last_used <= clock

\* the fields of an entry other than last_used
Placement(e) ==
    [codepoint |-> e.codepoint, tile_x |-> e.tile_x, tile_y |-> e.tile_y,
     uv_x |-> e.uv_x, uv_y |-> e.uv_y, uv_w |-> e.uv_w, uv_h |-> e.uv_h,
     advance |-> e.advance, lsb |-> e.lsb]

\* C6: a get_or_insert(c) right after a get_or_insert(c) leaves occupied
\* unchanged and returns the same slot, UV rectangle, advance and lsb.
C6_RepeatedInsertIsIdempotent ==
    [][ ( /\ last.op = "get_or_insert"
          /\ Returned("get_or_insert")
          /\ last'.args = last.args )
        => /\ occupied' = occupied
           /\ last'.ret # None
           /\ Placement(last'.ret[1]) = Placement(last.ret[1])
           /\ Cached(entries') = Cached(entries)
           /\ pixels' = pixels ]_vars

\* the same codepoint was asked for twice in a row and both calls returned
C6_Witness ==
    /\ last.op = "get_or_insert"
    /\ fault = "none"
    /\ last.again
    /\ last.hit
    /\ last.ret # None
    /\ occupied = 1

\* the pixels of the tile in a slot, by source index
TileAt(a, slot) ==
    [src \in 0..(GLYPH_SDF_SIZE * GLYPH_SDF_SIZE - 1) |->
        sample(a, (slot % a.dim) * GLYPH_SDF_SIZE + (src % GLYPH_SDF_SIZE),
                  (slot \div a.dim) * GLYPH_SDF_SIZE
                      + (src \div GLYPH_SDF_SIZE)).ret]

\* C7: set_params(p) empties the cache whatever p is: occupied is 0 and no
\* codepoint is contained, and the get_or_insert that follows is a miss
\* whose tile and advance come from the generator of p.
C7_SetParamsEmptiesCache ==
    [][ /\ Ran("set_params")
           => /\ occupied' = 0
              /\ Occ(entries') = {}
              /\ \A c \in Chars \cup Cached(entries) : ~contains(SelfNext, c)
              /\ params' = last'.args[1]
              /\ generator' = GeneratorNew(last'.args[1])
        /\ (last.op = "set_params" /\ Returned("get_or_insert"))
           => LET g   == GeneratorNew(last.args[1])
                  sdf == generate(g, AsciiOf(last'.args[1]))
              IN  /\ occupied' = 1
                  /\ last'.ret # None
                  /\ last'.ret[1].advance = sdf.advance
                  /\ TileAt(SelfNext, last'.slot) = sdf.data
      ]_vars

\* set_params was called with the parameters the atlas already had, on an
\* atlas that held glyphs
C7_Witness ==
    /\ last.op = "set_params"
    /\ last.pre.occupied >= 1
    /\ last.args[1] = last.pre.params

\* C8: clear() leaves every slot empty, every pixel 0.0, clock and occupied
\* 0, and dim, params and generator as they were: the atlas is as
\* SdfAtlas::new built it.
C8_ClearRestoresFreshState ==
    [][ Ran("clear")
        => /\ \A i \in DOMAIN entries' : entries'[i] = None
           /\ \A d \in DOMAIN pixels' : pixels'[d] = F32Zero
           /\ clock' = 0
           /\ occupied' = 0
           /\ dim' = dim /\ params' = params /\ generator' = generator
           /\ DOMAIN entries' = DOMAIN entries
           /\ DOMAIN pixels' = DOMAIN pixels
           /\ SelfNext = [new(dim, params) EXCEPT !.generator = generator]
      ]_vars

\* clear was called on an atlas that held glyphs and had a running clock
C8_Witness ==
    /\ last.op = "clear"
    /\ last.pre.occupied >= 2
    /\ last.pre.clock >= 3

\* C9: peek and contains change nothing: clock, entries, occupied and
\* pixels are as before, and so is the slot a later insertion would take.
C9_PeekAndContainsAreNeutral ==
    [][ (Ran("peek") \/ Ran("contains"))
        => /\ UNCHANGED <<dim, pixels, entries, params, generator, clock,
                          occupied>>
           /\ fault' = "none"
           /\ find_slot(SelfNext) = find_slot(Self) ]_vars

\* peek found a codepoint in a full atlas
C9_Witness ==
    /\ last.op = "peek"
    /\ last.ret # None
    /\ dim >= 1
    /\ occupied = dim * dim

\* C10: a lookup of a codepoint that is not cached returns None, advances
\* the clock by one and leaves entries, occupied and pixels unchanged.
C10_LookupMissOnlyTicks ==
    [][ (Returned("lookup") /\ ~contains(Self, last'.args[1]))
        => /\ last'.ret = None
           /\ clock' = clock + 1
           /\ entries' = entries
           /\ occupied' = occupied
           /\ pixels' = pixels ]_vars

\* C11: a hit of lookup(c) or get_or_insert(c) stamps c's entry with the
\* clock as the call advanced it, returns that entry, and changes nothing
\* else: every other entry, c's slot and placement, occupied and the pixels
\* are as before, and the same codepoints are cached (nothing is evicted).
C11_HitOnlyTouches ==
    [][ ( /\ Returned("lookup") \/ Returned("get_or_insert")
          /\ contains(Self, last'.args[1]) )
        => /\ clock' # clock
           /\ DOMAIN entries' = DOMAIN entries
           /\ \A i \in DOMAIN entries :
                 IF entries[i] # None /\ entries[i][1].codepoint = last'.args[1]
                 THEN /\ entries'[i] # None
                      /\ entries'[i][1].last_used = clock'
                      /\ Placement(entries'[i][1]) = Placement(entries[i][1])
                      /\ last'.ret = entries'[i]
                 ELSE entries'[i] = entries[i]
           /\ Cached(entries') = Cached(entries)
           /\ occupied' = occupied
           /\ pixels' = pixels
           /\ UNCHANGED <<dim, params, generator>> ]_vars

\* lookup hit a codepoint of a later slot of a full 2x2 atlas
C11_Witness ==
    /\ last.op = "lookup"
    /\ fault = "none"
    /\ last.hit
    /\ last.slot >= 1
    /\ dim = 2
    /\ last.pre.occupied = 4
    /\ occupied = 4

\* C12: no call on an atlas built by SdfAtlas::new(dim, params), for any dim
\* (0 included), ends in a fault.
C12_EveryOperationIsTotal == fault = "none"

\* C13: every lookup and every get_or_insert leaves the clock exactly one
\* greater than it was, however many calls came before, so a later access
\* is stamped with a larger last_used than any entry holds.
C13_ClockAdvancesByOne ==
    [][ (Ran("lookup") \/ Ran("get_or_insert"))
        => /\ clock' = clock + 1
           /\ \A i \in Occ(entries) : entries[i][1].last_used < clock' ]_vars

C15_NewClampsDimension ==
    /\ last.op = "new"
       => dim = (IF last.args[1] < MAX_ATLAS_DIM THEN last.args[1]
                 ELSE MAX_ATLAS_DIM)
    /\ last.op # "new"
       => /\ dim = last.pre.dim
          /\ Cardinality(DOMAIN pixels) = last.pre.pixels_len
          /\ Cardinality(DOMAIN entries) = last.pre.entries_len
    /\ capacity(Self) = dim * dim
    /\ DOMAIN pixels =
          0..((dim * GLYPH_SDF_SIZE) * (dim * GLYPH_SDF_SIZE) - 1)
    /\ DOMAIN entries = 0..(capacity(Self) - 1)

\* a call returned on an atlas of the capped dimension
C15_Witness ==
    /\ last.op = "preload"
    /\ fault = "none"
    /\ dim = MAX_ATLAS_DIM
    /\ last.pre.dim = MAX_ATLAS_DIM
    /\ occupied >= 2
    /\ Cardinality(DOMAIN entries) = MAX_ATLAS_DIM * MAX_ATLAS_DIM

\* a codepoint with no glyph definition: not ASCII, or outside 0x21..0x7E
NoGlyph(ch) == ~is_ascii(ch) \/ ch < 33 \/ ch > 126

\* the tile and metrics rasterize_sdf gives the placeholder skeleton
PlaceholderSdf(g) ==
    [data    |-> [src \in 0..(GLYPH_SDF_SIZE * GLYPH_SDF_SIZE - 1) |->
                     F32Sample(g, PLACEHOLDER, src)],
     advance |-> [gen |-> g.from, skel |-> PLACEHOLDER],
     lsb     |-> 0]

\* C17: a get_or_insert miss that returns for a codepoint with no glyph
\* definition caches it under that codepoint with the advance, lsb and tile
\* of the placeholder skeleton.
C17_UnknownCodepointGetsPlaceholder ==
    [][ ( /\ Returned("get_or_insert")
          /\ NoGlyph(last'.args[1])
          /\ ~contains(Self, last'.args[1]) )
        => /\ last'.ret # None
           /\ last'.ret[1].codepoint = last'.args[1]
           /\ peek(SelfNext, last'.args[1]) = last'.ret
           /\ last'.ret[1].advance = PlaceholderSdf(generator').advance
           /\ last'.ret[1].lsb = PlaceholderSdf(generator').lsb
           /\ TileAt(SelfNext, last'.slot) = PlaceholderSdf(generator').data
      ]_vars

\* C16: the tile rasterize_sdf writes with its two early exits is, sample
\* for sample, the minimum over all strokes and all STEPS + 1 samples of
\* (distance to the sample - its half-width): the tile of the rasterizer
\* without early exits.
C16_EarlyExitsKeepOutput ==
    last.op = "rasterize_sdf"
    => last.ret.data = rasterize_sdf_all_samples(pen, last.pre).data

\* C18: add_stroke on a skeleton of fewer than MAX_GLYPH_STROKES strokes
\* stores the stroke at index stroke_count and raises the count by one,
\* with the earlier strokes and the advance as they were; on a skeleton of
\* MAX_GLYPH_STROKES strokes it changes nothing; the count never exceeds
\* MAX_GLYPH_STROKES.
C18_AddStrokeIsCapped ==
    /\ skeleton.stroke_count <= MAX_GLYPH_STROKES
    /\ DOMAIN skeleton.strokes = 0..(MAX_GLYPH_STROKES - 1)
    /\ last.op = "add_stroke"
       => IF last.pre.stroke_count < MAX_GLYPH_STROKES
          THEN /\ skeleton.stroke_count = last.pre.stroke_count + 1
               /\ skeleton.strokes[last.pre.stroke_count] = last.args[1]
               /\ \A i \in 0..(last.pre.stroke_count - 1) :
                     skeleton.strokes[i] = last.pre.strokes[i]
               /\ skeleton.advance = last.pre.advance
               /\ fault = "none"
          ELSE /\ skeleton = last.pre
               /\ fault = "none"

\* a seventeenth stroke, unlike the sixteenth, was added to a skeleton that
\* had just been filled
C18_Witness ==
    /\ last.op = "add_stroke"
    /\ last.pre.stroke_count = MAX_GLYPH_STROKES
    /\ last.args[1] # last.pre.strokes[MAX_GLYPH_STROKES - 1]
    /\ calls = 2

\* C19: for a skeleton with no strokes, or one whose padded bounding box has
\* a width or height under 1e-6, rasterize_sdf returns a tile whose samples
\* are all positive and whose advance is the skeleton's.
C19_DegenerateInputGivesOutsideTile ==
    ( /\ last.op = "rasterize_sdf"
      /\ \/ last.pre.stroke_count = 0
         \/ Degenerate(PaddedBox(pen, last.pre)) )
    => /\ \A k \in DOMAIN last.ret.data : last.ret.data[k] > 0
       /\ DOMAIN last.ret.data = 0..(GLYPH_SDF_SIZE * GLYPH_SDF_SIZE - 1)
       /\ last.ret.advance = last.pre.advance
       /\ fault = "none"

\* a skeleton with a stroke and a bounding box of no width was rasterized;
\* its advance is not the default one
C19_Witness ==
    /\ last.op = "rasterize_sdf"
    /\ last.pre.stroke_count >= 1
    /\ Degenerate(PaddedBox(pen, last.pre))
    /\ last.pre.advance # GlyphSdf_empty.advance

\* C20: with contrast = 0, half_width_at_angle(a) is base_width for every
\* angle a and half_width(t) is base_width for every tangent t, the zero
\* tangent included.
C20_MonolinePenIsConstant ==
    ( /\ last.op \in {"half_width_at_angle", "half_width"}
      /\ pen.contrast = 0 )
    => last.ret = pen.base_width

\* a pen without contrast was asked for its half-width across the nib
C20_Witness ==
    /\ last.op = "half_width_at_angle"
    /\ pen.contrast = 0
    /\ pen.base_width > 0
    /\ sin_approx_stroke(last.args[1] - pen.pen_angle) # 0

\* C25: the last_used values of the cached entries are pairwise distinct
\* and each lies in 1..clock, so the entry with the smallest last_used is
\* unique.
C25_LastUsedDistinctAndInRange ==
    /\ \A i \in Occ(entries) :
           /\ entries[i][1].last_used >= 1
           /\ entries[i][1].last_used <= clock
    /\ \A i \in Occ(entries) : \A j \in Occ(entries) :
           entries[i][1].last_used = entries[j][1].last_used => i = j

\* C26: occupied is the number of non-empty slots of the entry table and
\* the number of distinct codepoints that contains() reports.
C26_OccupiedCountsSlots ==
    /\ occupied = Cardinality(Occ(entries))
    /\ occupied = Cardinality({c \in Chars \cup Cached(entries) :
                                  contains(Self, c)})

\* an eviction has replaced an entry of a full 2x2 atlas
C26_Witness ==
    /\ last.op = "get_or_insert"
    /\ fault = "none"
    /\ last.victim # None
    /\ dim = 2
    /\ occupied = Cardinality(DOMAIN entries)
    /\ last.pre.occupied = occupied

\* the indices of the pixel block of a slot in the texture
BlockOf(a, slot) ==
    {((slot \div a.dim) * GLYPH_SDF_SIZE + row) * texture_size(a)
        + (slot % a.dim) * GLYPH_SDF_SIZE + col :
        row \in 0..(GLYPH_SDF_SIZE - 1), col \in 0..(GLYPH_SDF_SIZE - 1)}

\* C28: a get_or_insert miss replaces all the samples of the block of the
\* slot it chose by the tile of the new glyph and leaves every pixel outside
\* that block unchanged; after every get_or_insert and every preload, the
\* calls that can miss, the block of every cached glyph holds the tile
\* generated for its codepoint.
C28_MissWritesOneBlock ==
    [][ /\ (Returned("get_or_insert") /\ ~last'.hit)
           => LET slot  == last'.slot
                  sdf   == generate(generator, AsciiOf(last'.args[1]))
                  block == BlockOf(Self, slot)
              IN  /\ TileAt(SelfNext, slot) = sdf.data
                  /\ Cardinality(block) = GLYPH_SDF_SIZE * GLYPH_SDF_SIZE
                  /\ block \subseteq DOMAIN pixels
                  /\ DOMAIN pixels' = DOMAIN pixels
                  /\ \A q \in DOMAIN pixels \ block :
                         pixels'[q] = pixels[q]
        /\ (last'.op \in {"get_or_insert", "preload"} /\ fault' = "none")
           => \A i \in Occ(entries') :
                 TileAt(SelfNext, i)
                   = generate(generator',
                              AsciiOf(entries'[i][1].codepoint)).data
      ]_vars

\* '?' took the first slot of a full 2x2 atlas from 'A': the block holds
\* the samples of '?' and the other three glyphs are still cached
C28_Witness ==
    /\ last.op = "get_or_insert"
    /\ fault = "none"
    /\ ~last.hit
    /\ last.victim = Some(65)
    /\ last.args = <<63>>
    /\ last.slot = 0
    /\ dim = 2
    /\ occupied = 4
    /\ pixels[0].skel = 63

\* C29: for a pen with base_width >= 0 the value rasterize_sdf writes for a
\* pixel is negative exactly when the minimum of distance - half-width over
\* all strokes and all samples is negative, and a written value that is not
\* negative is that minimum.
C29_EarlyExitsKeepSign ==
    (last.op = "rasterize_sdf" /\ pen.base_width >= 0)
    => LET full == rasterize_sdf_all_samples(pen, last.pre).data
       IN  \A k \in PixelIndices :
              /\ (last.ret.data[k] < 0) <=> (full[k] < 0)
              /\ last.ret.data[k] >= 0 => last.ret.data[k] = full[k]

\* a tile with a pixel outside every stroke and a pixel inside one whose
\* value is not the minimum over all samples
C29_Witness ==
    /\ last.op = "rasterize_sdf"
    /\ pen.base_width > 0
    /\ last.pre.stroke_count >= 1
    /\ \E k \in PixelIndices :
           last.ret.data[k] >= 0 /\ last.ret.data[k] < F32_MAX
    /\ \E k \in PixelIndices :
           /\ last.ret.data[k] < 0
           /\ last.ret.data[k]
                 # rasterize_sdf_all_samples(pen, last.pre).data[k]

\* the f32 sum a + b is at most c
F32Within(a, b, c) == F32Le(F32Add(a, b), c)

\* C27: the entry stored in slot i records tile_x = i mod dim and
\* tile_y = i div dim, both below dim; its UV rectangle lies inside
\* [0,1] x [0,1]; the tile rectangles of two cached codepoints do not
\* overlap.
C27_TilePlacementAndUv ==
    \A i \in Occ(entries) :
        LET e == entries[i][1]
        IN  /\ e.tile_x = i % dim
            /\ e.tile_y = i \div dim
            /\ e.tile_x < dim
            /\ e.tile_y < dim
            /\ F32Le(F32_ZERO, e.uv_x)
            /\ F32Le(F32_ZERO, e.uv_y)
            /\ F32Within(e.uv_x, e.uv_w, F32_ONE)
            /\ F32Within(e.uv_y, e.uv_h, F32_ONE)
            /\ \A j \in Occ(entries) \ {i} :
                   /\ <<e.tile_x, e.tile_y>>
                         # <<entries[j][1].tile_x, entries[j][1].tile_y>>
                   /\ BlockOf(Self, i) \cap BlockOf(Self, j) = {}


\* the indices of the entries of a table that hold a key
Stored(tbl, key) == {i \in 1..Len(tbl) : tbl[i].key = key}

\* the adjustment a table holds for a pair, found by reading every entry
Holds(tbl, left, right) ==
    IF Stored(tbl, make_key(left, right)) = {} THEN 0
    ELSE tbl[CHOOSE i \in Stored(tbl, make_key(left, right)) : TRUE]
             .adjustment

\* C21: after TextShaper::new and any calls of add_kern_pair the keys of
\* kern_table are strictly ascending, so no key is held twice; kern(l, r)
\* returns the adjustment the table holds for (l, r) and 0 when the pair is
\* not in the table; and after add_kern_pair(l, r, adj) a pair that is in
\* the table holds adj, the pair is in the table when it was there before
\* or the table was not full, and every other pair holds what it held.
C21_KernTableSortedAndKernReturnsStored ==
    /\ \A i \in 1..(Len(shaper.kern_table) - 1) :
           shaper.kern_table[i].key < shaper.kern_table[i + 1].key
    /\ Len(shaper.kern_table) <= MAX_KERN_PAIRS
    /\ \A pair \in Pairs :
           kern(shaper, pair[1], pair[2]) =
               Holds(shaper.kern_table, pair[1], pair[2])
    /\ last.op = "kern" =>
           last.ret = Holds(shaper.kern_table, last.args[1], last.args[2])
    /\ last.op = "add_kern_pair" =>
           LET key == make_key(last.args[1], last.args[2])
               was == Stored(last.pre.kern_table, key) # {}
               is  == Stored(shaper.kern_table, key) # {}
           IN  /\ is => kern(shaper, last.args[1], last.args[2]) =
                            last.args[3]
               /\ is <=> (was \/ Len(last.pre.kern_table) < MAX_KERN_PAIRS)
               /\ \A i \in 1..Len(last.pre.kern_table) :
                      last.pre.kern_table[i].key # key =>
                          \E j \in 1..Len(shaper.kern_table) :
                              shaper.kern_table[j] = last.pre.kern_table[i]
               /\ Len(shaper.kern_table) =
                      Len(last.pre.kern_table) +
                          (IF is /\ ~was THEN 1 ELSE 0)

\* kern('A', 'V') returns the adjustment that a call of add_kern_pair has
\* just stored over the default one, in a table that holds other pairs on
\* both sides of it
C21_Witness ==
    /\ last.op = "kern"
    /\ last.args = <<65, 86>>
    /\ last.ret = 0 - 10
    /\ Stored(TextShaper_new(sans_regular).kern_table, make_key(65, 86)) # {}
    /\ Len(shaper.kern_table) > Len(kern_data)


\* the codepoints of the glyphs of the lines, in the order of the lines
RECURSIVE Codepoints(_)
Codepoints(lines) ==
    IF lines = <<>> THEN <<>>
    ELSE [k \in 1..Len(Head(lines).glyphs) |->
             Head(lines).glyphs[k].codepoint] \o Codepoints(Tail(lines))

\* the chars of a text that are placed as glyphs
Placed(text) == SelectSeq(text, LAMBDA ch : ch # SPACE /\ ch # NEWLINE)

\* C24: shape_text returns the lines in input order, the k-th returned line
\* (k from 0) has y_offset = k * line_step, every newline-separated line of
\* the input produces an output line, and in word-wrap mode
\* (0 < max_width < 1e6) there is a ShapedLine with no glyphs and width 0
\* for every empty line of the input.
C24_ShapeTextLinesAndEmptyLines ==
    (last.op = "shape_text" /\ fault = "none") =>
        LET lines  == last.ret
            text   == last.args[1]
            wrap   == 0 < last.args[2] /\ last.args[2] < 1000000 * One
            pieces == Split(text, NEWLINE)
            blank  == {k \in 1..Len(lines) :
                          lines[k].glyphs = <<>> /\ lines[k].width = 0}
            empty  == {k \in 1..Len(pieces) : pieces[k] = <<>>}
        IN  /\ Codepoints(lines) = Placed(text)
            /\ \A k \in 1..Len(lines) :
                   lines[k].y_offset = (k - 1) * LineStep(last.pre)
            /\ Len(lines) >= Len(pieces)
            /\ wrap => Cardinality(blank) >= Cardinality(empty)


\* a call of the validator, the convenience wrapper included
Validated == last.op \in {"validate", "validate_commercial_game"}

\* C22: a parametric license always passes validation: validate returns
\* Valid for every license whose license_type is Parametric, whatever
\* current_epoch, platform, required_right, title_id, current_seats and
\* params_encoded are passed.
C22_ParametricAlwaysValid ==
    (Validated /\ last.pre.license_type = "Parametric") =>
        last.ret = "Valid"

\* the bits that are set in a bit field
Bits(n) == {i \in 0..15 : (n \div (2 ^ i)) % 2 = 1}

\* the outcomes of validate in the order of its checks, each with whether
\* its check fails for a license and the arguments of a call
Checks(lic, args) ==
    << <<"Expired",
         lic.expires_epoch # 0 /\ ~(args[1] <= lic.expires_epoch)>>,
       <<"PlatformDenied", ~(Bits(args[2]) \subseteq Bits(lic.platforms))>>,
       <<"RightDenied", ~(Bits(args[3]) \subseteq Bits(lic.rights))>>,
       <<"TitleMismatch", lic.title_id # 0 /\ lic.title_id # args[4]>>,
       <<"SeatLimitExceeded",
         lic.max_seats # 0 /\ ~(args[5] <= lic.max_seats)>>,
       <<"ParamsMismatch", lic.params_hash # fnv1a(args[6])>> >>

\* C23: for a non-parametric license validate reports the first failing
\* check in the order expiry, platform, right, title, seat limit, params
\* hash, and Valid only when all six pass; expires_epoch = 0, title_id = 0
\* and max_seats = 0 disable their own check, and an epoch equal to
\* expires_epoch is not expired.
C23_FirstFailingCheckInOrder ==
    (Validated /\ last.pre.license_type # "Parametric") =>
        LET checks == Checks(last.pre, last.args)
            failing == {k \in 1..Len(checks) : checks[k][2]}
        IN  /\ failing = {} <=> last.ret = "Valid"
            /\ \A k \in failing :
                   (\A j \in failing : k <= j) => last.ret = checks[k][1]
            /\ (last.pre.expires_epoch = 0 \/
                last.args[1] = last.pre.expires_epoch) =>
                   last.ret # "Expired"
            /\ last.pre.title_id = 0 => last.ret # "TitleMismatch"
            /\ last.pre.max_seats = 0 => last.ret # "SeatLimitExceeded"

\* a commercial license validated at the very epoch it expires, on a
\* platform it does not cover, for another title and over the seat limit:
\* the platform is what validate reports
C23_Witness ==
    /\ last.op = "validate"
    /\ last.pre.license_type = "Commercial"
    /\ last.pre.expires_epoch # 0
    /\ last.args[1] = last.pre.expires_epoch
    /\ ~has(last.pre.platforms, last.args[2])
    /\ last.pre.title_id \notin {0, last.args[4]}
    /\ last.pre.max_seats # 0 /\ last.args[5] > last.pre.max_seats
    /\ last.ret = "PlatformDenied"

====
